---- MODULE Spec2Model ----
(***************************************************************************)
(* State-machine model of the TalentTrack REST backend: the document store *)
(* gateway (db.js), the session routes (routes/sessions.js), the auth and  *)
(* profile routes (routes/auth.js, routes/users.js) and the social graph   *)
(* routes (routes/connections.js).                                         *)
(*                                                                         *)
(* Every request handler is an async function.  Each action below is one   *)
(* resumption of a handler: the effect of the operation it awaited (a      *)
(* document-store call or a media upload) together with the synchronous    *)
(* code that follows it, up to the next await or the response.  Handlers   *)
(* of different requests interleave at these points only.                  *)
(***************************************************************************)
EXTENDS Integers, Sequences, FiniteSets, TLC

\* ------------------------------------------------------------------ bounds
MaxReq == 2          \* request slots (requests that may be in flight)
MaxReps == 2         \* rep images per ingest payload
MaxSocialReq == 3    \* request slots of the user and connection routes
MaxUsers == 2        \* User documents in a populated store
MaxSessions == 2     \* WorkoutSession documents in a populated store
MaxObjects == 1      \* hosted media objects per folder
MaxRuns == 2         \* runs of the remediation utility

Slots == 1..MaxReq
SocialSlots == 1..MaxSocialReq
AllSlots == Slots \cup SocialSlots

\* ------------------------------------------------------------------ values
Null == "null"
PdfPayload == "data:application/pdf;base64,JVBERi0"
VideoPayload == "data:video/webm;base64,GkXfo"
ImagePayload == "data:image/jpeg;base64,/9j/4AA"
PdfHostUrl == "https://res.cloudinary.com/raw/upload/talenttrack/reports/r.pdf"
VideoHostUrl == "https://res.cloudinary.com/video/upload/talenttrack/videos/v.webm"
ImageHostUrl == "https://res.cloudinary.com/image/upload/talenttrack/img.jpg"

NoError == "none"
NotConnected == "Database not connected yet"
StorageError == "StorageError"
BSONError == "BSONError"

VARIABLES
  cloud,         \* media host: access_mode of every hosted object
  fix,           \* fix-cloudinary-access.js: locals and position of the script
  connectDB,     \* the promise of connectDB(): "idle" (not called), "pending",
                 \* "resolved", "rejected"
  db,            \* db.js `db`: TRUE once client.db("talenttrack") was assigned
  server,        \* startServer: "init", "connecting", "indexing", "listening"
  repIndex,      \* unique index {sessionId, repNumber} exists on rep_images
  nextOid,       \* ObjectId generator of the driver
  sessions,      \* collection workout_sessions (set of documents)
  reps,          \* collection rep_images (documents in natural order)
  users,         \* collection users (documents in natural order)
  connections,   \* collection connections (documents in natural order)
  req            \* per request slot: the handler's locals, position, response

vars == <<cloud, fix, connectDB, db, server, repIndex, nextOid, sessions, reps, users, connections, req>>

\* ------------------------------------------------------------ sequences
Range(s) == {s[i] : i \in DOMAIN s}

RECURSIVE SeqsUpTo(_, _)
SeqsUpTo(S, n) ==
  IF n = 0 THEN {<<>>}
  ELSE LET shorter == SeqsUpTo(S, n - 1)
       IN shorter \cup {Append(q, x) : q \in {p \in shorter : Len(p) = n - 1}, x \in S}

\* ------------------------------------------------------------ ObjectId
\* insertedId.toString(): the 24-hex-digit string form of an ObjectId
ObjectIdToString(oid) == <<"hex", oid>>
\* a request parameter that is not a 24-hex-digit string
MalformedId == <<"not-hex", 0>>
\* ObjectId.isValid(str)
ObjectIdIsValid(str) == str[1] = "hex"
\* new ObjectId(str)
NewObjectId(str) == str[2]

\* ------------------------------------------------------------ requests
IdleReq ==
  [kind |-> "none", pc |-> "idle", status |-> 0, error |-> NoError,
   sid |-> MalformedId, pdfData |-> Null, videoData |-> Null,
   pdfUrl |-> Null, videoUrl |-> Null, pdfFailed |-> FALSE, videoFailed |-> FALSE,
   repImages |-> <<>>, pending |-> {}, repsWithUrls |-> <<>>,
   deletedCount |-> 0, respReps |-> <<>>,
   name |-> Null, email |-> Null, password |-> Null, role |-> Null,
   userId |-> Null, profilePic |-> Null,
   fromUserId |-> Null, toUserId |-> Null, requestId |-> MalformedId,
   connected |-> FALSE, connStatus |-> Null,
   connectedUserIds |-> {}, found |-> <<>>,
   responses |-> 0, hasFile |-> FALSE, activity |-> Null, spawned |-> FALSE,
   launchFailed |-> FALSE, exited |-> FALSE, exitCode |-> 0, videoFile |-> FALSE,
   extractTried |-> FALSE, extractFailed |-> FALSE, convertTried |-> FALSE,
   convertFailed |-> FALSE, hasFrames |-> FALSE,
   workouts |-> <<>>, workoutsWithReps |-> <<>>,
   uploadOnDisk |-> FALSE, tempScriptOnDisk |-> FALSE]

\* res.status(code).json(...): the handler has answered
Respond(r, code, err) ==
  [r EXCEPT !.pc = "done", !.status = code, !.error = err, !.responses = @ + 1]

SetReq(r, rec) == req' = [req EXCEPT ![r] = rec]

\* a new request is handled in the lowest unused slot
Free(r) == req[r].pc = "idle" /\ \A q \in AllSlots : q < r => req[q].pc # "idle"

\* ---------------------------------------------------- document store gateway
\* variant: startServer() does not await connectDB() before app.listen
StartServerNoAwait ==
  /\ server = "init"
  /\ server' = "listening"
  /\ connectDB' = "pending"
  /\ UNCHANGED <<cloud, fix, db, repIndex, nextOid, sessions, reps, users, connections, req>>

\* startServer(): connectDB() is called, client.connect() is awaited
StartServer ==
  /\ server = "init"
  /\ server' = "connecting"
  /\ connectDB' = "pending"
  /\ UNCHANGED <<cloud, fix, db, repIndex, nextOid, sessions, reps, users, connections, req>>

\* client.connect() resolved: db = client.db("talenttrack")
ConnectOk ==
  /\ server = "connecting"
  /\ db' = TRUE
  /\ server' = "indexing"
  /\ UNCHANGED <<cloud, fix, connectDB, repIndex, nextOid, sessions, reps, users, connections, req>>

\* client.connect() rejected: connectDB rethrows, startServer listens anyway
ConnectFail ==
  /\ server = "connecting"
  /\ server' = "listening"
  /\ connectDB' = "rejected"
  /\ UNCHANGED <<cloud, fix, db, repIndex, nextOid, sessions, reps, users, connections, req>>

\* db.js: the two non-unique indexes are created and connectDB resolves, or
\* createIndex throws and connectDB rejects; either way startServer goes on
\* to listen
CreateIndexes ==
  /\ server = "indexing"
  /\ server' = "listening"
  /\ \E created \in BOOLEAN : connectDB' = IF created THEN "resolved" ELSE "rejected"
  /\ UNCHANGED <<cloud, fix, db, repIndex, nextOid, sessions, reps, users, connections, req>>

\* production variant of db.js: additionally a unique index on
\* {sessionId, repNumber}; a createIndex error is swallowed with a warning
CreateIndexesUnique ==
  /\ server = "indexing"
  /\ \E created \in BOOLEAN : repIndex' = created
  /\ server' = "listening"
  /\ connectDB' = "resolved"
  /\ UNCHANGED <<cloud, fix, db, nextOid, sessions, reps, users, connections, req>>

\* getDB(): throws unless db was assigned
GetDBThrows == ~db

\* ------------------------------------------------------- collection helpers
\* rep_images.find({sessionId}) in natural order
FindReps(coll, sid) == SelectSeq(coll, LAMBDA d : d.sessionId = sid)

\* variant: deleteMany without its {sessionId} filter
DeleteManyRepsUnfiltered(coll, sid) == SelectSeq(coll, LAMBDA d : FALSE)

\* rep_images.deleteMany({sessionId})
DeleteManyReps(coll, sid) == SelectSeq(coll, LAMBDA d : d.sessionId # sid)

\* the unique index {sessionId: 1, repNumber: 1} rejects the document
DuplicateKey(coll, d) ==
  \E i \in DOMAIN coll :
    coll[i].sessionId = d.sessionId /\ coll[i].repNumber = d.repNumber

\* variant: a bulk write that hits a duplicate key inserts nothing at all
InsertManyAllOrNothing(coll, docs, unique) ==
  IF unique /\ \E i \in DOMAIN docs :
                  \/ DuplicateKey(coll, docs[i])
                  \/ \E j \in 1..(i - 1) : /\ docs[j].sessionId = docs[i].sessionId
                                            /\ docs[j].repNumber = docs[i].repNumber
  THEN coll
  ELSE coll \o docs

\* insertMany(docs, {ordered: false}): every document is attempted in turn; one
\* that violates the unique index is skipped and the others are still inserted
RECURSIVE InsertManyUnordered(_, _, _)
InsertManyUnordered(coll, docs, unique) ==
  IF docs = <<>> THEN coll
  ELSE LET d == Head(docs)
       IN InsertManyUnordered(
            IF unique /\ DuplicateKey(coll, d) THEN coll ELSE Append(coll, d),
            Tail(docs), unique)

\* the bulk write reported error code 11000
BulkWriteDuplicate(coll, docs, unique) ==
  Len(InsertManyUnordered(coll, docs, unique)) < Len(coll) + Len(docs)

\* .sort({repNumber: 1}): stable insertion sort on repNumber
RECURSIVE InsertSorted(_, _)
InsertSorted(sorted, d) ==
  IF sorted = <<>> THEN <<d>>
  ELSE IF d.repNumber < Head(sorted).repNumber THEN <<d>> \o sorted
  ELSE <<Head(sorted)>> \o InsertSorted(Tail(sorted), d)

RECURSIVE SortByRepNumber(_)
SortByRepNumber(docs) ==
  IF docs = <<>> THEN <<>>
  ELSE InsertSorted(SortByRepNumber(SubSeq(docs, 1, Len(docs) - 1)), docs[Len(docs)])

\* variant: the query without its .sort({repNumber: 1}) stage
RepsForSessionUnsorted(sid) == FindReps(reps, sid)

\* GET /:sessionId/reps: find({sessionId}).sort({repNumber: 1}).toArray()
RepsForSession(sid) == SortByRepNumber(FindReps(reps, sid))

\* ------------------------------------------------------------ media uploader
\* uploadPDF / uploadVideo / uploadImage resolve with result.secure_url
UploadPDF(data) == PdfHostUrl
UploadVideo(data) == VideoHostUrl
UploadImage(data) == ImageHostUrl

\* ------------------------------------------------- POST /api/sessions/add
RepImage(n) == [repNumber |-> n, imageData |-> ImagePayload]
RepPayloads == SeqsUpTo({RepImage(n) : n \in 1..MaxReps}, MaxReps)
\* payloads with at most one rep image
SmallPayloads == {p \in RepPayloads : Len(p) <= 1 /\ \A i \in DOMAIN p : p[i].repNumber = 1}

\* the await that follows the PDF upload step
AfterPdf(rec) == IF rec.videoData # Null THEN "video" ELSE "insertSession"

\* getDB(), destructuring, then the first await of the handler
IngestStart(r, pdf, video, imgs) ==
  /\ server = "listening"
  /\ Free(r)
  /\ LET rec == [IdleReq EXCEPT !.kind = "ingest", !.pdfData = pdf,
                                !.videoData = video, !.repImages = imgs]
     IN IF GetDBThrows
        THEN SetReq(r, Respond(rec, 500, NotConnected))
        ELSE SetReq(r, [rec EXCEPT !.pc = IF pdf # Null THEN "pdf" ELSE AfterPdf(rec)])
  /\ UNCHANGED <<cloud, fix, connectDB, db, server, repIndex, nextOid, sessions, reps, users, connections>>

\* variant: the catch block of the PDF upload forgets the fallback assignment
IngestPdfSettledNoFallback(rec, ok) ==
  [rec EXCEPT !.pdfUrl = IF ok THEN UploadPDF(rec.pdfData) ELSE Null,
              !.pdfFailed = ~ok,
              !.pc = AfterPdf(rec)]

\* uploadPDF settled: its URL, or in the catch block the inline payload
IngestPdfSettled(rec, ok) ==
  [rec EXCEPT !.pdfUrl = IF ok THEN UploadPDF(rec.pdfData) ELSE rec.pdfData,
              !.pdfFailed = ~ok,
              !.pc = AfterPdf(rec)]

IngestPdf(r) ==
  /\ req[r].kind = "ingest" /\ req[r].pc = "pdf"
  /\ \E ok \in BOOLEAN : SetReq(r, IngestPdfSettled(req[r], ok))
  /\ UNCHANGED <<cloud, fix, connectDB, db, server, repIndex, nextOid, sessions, reps, users, connections>>

\* uploadVideo settled: its URL, or in the catch block the inline payload
IngestVideoSettled(rec, ok) ==
  [rec EXCEPT !.videoUrl = IF ok THEN UploadVideo(rec.videoData) ELSE rec.videoData,
              !.videoFailed = ~ok,
              !.pc = "insertSession"]

IngestVideo(r) ==
  /\ req[r].kind = "ingest" /\ req[r].pc = "video"
  /\ \E ok \in BOOLEAN : SetReq(r, IngestVideoSettled(req[r], ok))
  /\ UNCHANGED <<cloud, fix, connectDB, db, server, repIndex, nextOid, sessions, reps, users, connections>>

\* the document handed to workout_sessions.insertOne
SessionDoc(oid, rec) == [_id |-> oid, pdfUrl |-> rec.pdfUrl, videoUrl |-> rec.videoUrl]

\* the 200 response of the handler: {success, sessionId, pdfUrl, videoUrl}
IngestRespond(rec) == Respond(rec, 200, NoError)

\* workout_sessions.insertOne settled; with rep images the cleanup deleteMany is
\* awaited next, without them the handler answers
IngestInsertSession(r) ==
  /\ req[r].kind = "ingest" /\ req[r].pc = "insertSession"
  /\ \E ok \in BOOLEAN :
       IF ~ok
       THEN /\ SetReq(r, Respond(req[r], 500, StorageError))
            /\ UNCHANGED <<nextOid, sessions>>
       ELSE LET rec == [req[r] EXCEPT !.sid = ObjectIdToString(nextOid)]
            IN /\ sessions' = sessions \cup {SessionDoc(nextOid, req[r])}
               /\ nextOid' = nextOid + 1
               /\ IF Len(rec.repImages) > 0
                  THEN SetReq(r, [rec EXCEPT !.pc = "cleanup"])
                  ELSE SetReq(r, IngestRespond(rec))
  /\ UNCHANGED <<cloud, fix, connectDB, db, server, repIndex, reps, users, connections>>

\* rep_images.deleteMany({sessionId}) settled; Promise.all starts every upload
IngestCleanup(r) ==
  /\ req[r].kind = "ingest" /\ req[r].pc = "cleanup"
  /\ \E ok \in BOOLEAN :
       IF ~ok
       THEN /\ SetReq(r, Respond(req[r], 500, StorageError))
            /\ UNCHANGED reps
       ELSE /\ reps' = DeleteManyReps(reps, req[r].sid)
            /\ SetReq(r, [req[r] EXCEPT !.pc = "uploads",
                                        !.pending = DOMAIN req[r].repImages,
                                        !.repsWithUrls = [i \in DOMAIN req[r].repImages |-> Null]])
  /\ UNCHANGED <<cloud, fix, connectDB, db, server, repIndex, nextOid, sessions, users, connections>>

\* the document one repImages.map callback returns
RepDoc(rep, sid, ok) ==
  [repNumber |-> rep.repNumber,
   imageUrl |-> IF ok THEN UploadImage(rep.imageData) ELSE rep.imageData,
   sessionId |-> sid]

\* one uploadImage settled (in any order among the pending ones)
IngestRepUpload(r, i) ==
  /\ req[r].kind = "ingest" /\ req[r].pc = "uploads"
  /\ i \in req[r].pending
  /\ \E ok \in BOOLEAN :
       SetReq(r, [req[r] EXCEPT !.pending = @ \ {i},
                                !.repsWithUrls[i] = RepDoc(req[r].repImages[i], req[r].sid, ok)])
  /\ UNCHANGED <<cloud, fix, connectDB, db, server, repIndex, nextOid, sessions, reps, users, connections>>

\* variant: insertMany is issued without awaiting Promise.all
IngestInsertManyEarly(r) ==
  /\ req[r].kind = "ingest" /\ req[r].pc = "uploads"
  /\ reps' = InsertManyUnordered(reps, req[r].repsWithUrls, repIndex)
  /\ SetReq(r, IngestRespond(req[r]))
  /\ UNCHANGED <<cloud, fix, connectDB, db, server, repIndex, nextOid, sessions, users, connections>>

\* Promise.all resolved and insertMany settled: a duplicate-key error (11000)
\* is swallowed, any other error is rethrown to the outer catch
IngestInsertMany(r) ==
  /\ req[r].kind = "ingest" /\ req[r].pc = "uploads"
  /\ req[r].pending = {}
  /\ \E ok \in BOOLEAN :
       IF ~ok
       THEN /\ SetReq(r, Respond(req[r], 500, StorageError))
            /\ UNCHANGED reps
       ELSE /\ reps' = InsertManyUnordered(reps, req[r].repsWithUrls, repIndex)
            /\ SetReq(r, IngestRespond(req[r]))
  /\ UNCHANGED <<cloud, fix, connectDB, db, server, repIndex, nextOid, sessions, users, connections>>

\* ------------------------------------------- GET /api/sessions/:sessionId/reps
\* session ids a client can name: every id generated so far, one that never
\* existed, and a string that is no ObjectId
KnownSessionIds == {ObjectIdToString(n) : n \in 0..(nextOid - 1)} \cup {MalformedId}

GetReps(r, sid) ==
  /\ server = "listening"
  /\ Free(r)
  /\ LET rec == [IdleReq EXCEPT !.kind = "reps", !.sid = sid]
     IN IF GetDBThrows
        THEN SetReq(r, Respond(rec, 500, NotConnected))
        ELSE \E ok \in BOOLEAN :
               IF ok
               THEN SetReq(r, Respond([rec EXCEPT !.respReps = RepsForSession(sid)], 200, NoError))
               ELSE SetReq(r, Respond(rec, 500, StorageError))
  /\ UNCHANGED <<cloud, fix, connectDB, db, server, repIndex, nextOid, sessions, reps, users, connections>>

\* ---------------------------------------------- DELETE /api/sessions/:sessionId
\* variant: the handler deletes the session document before the rep images
DeleteStartSessionFirst(r, sid) ==
  /\ server = "listening"
  /\ Free(r)
  /\ ~GetDBThrows
  /\ ObjectIdIsValid(sid)
  /\ sessions' = {s \in sessions : s._id # NewObjectId(sid)}
  /\ SetReq(r, [IdleReq EXCEPT !.kind = "delete", !.sid = sid, !.pc = "deleteSession"])
  /\ UNCHANGED <<cloud, fix, connectDB, db, server, repIndex, nextOid, reps, users, connections>>

\* getDB(), ObjectId.isValid, then rep_images.deleteMany({sessionId}) settled
DeleteStart(r, sid) ==
  /\ server = "listening"
  /\ Free(r)
  /\ LET rec == [IdleReq EXCEPT !.kind = "delete", !.sid = sid]
     IN IF GetDBThrows
        THEN SetReq(r, Respond(rec, 500, NotConnected)) /\ UNCHANGED reps
        ELSE IF ~ObjectIdIsValid(sid)
        THEN SetReq(r, Respond(rec, 400, NoError)) /\ UNCHANGED reps
        ELSE \E ok \in BOOLEAN :
               IF ~ok
               THEN SetReq(r, Respond(rec, 500, StorageError)) /\ UNCHANGED reps
               ELSE /\ reps' = DeleteManyReps(reps, sid)
                    /\ SetReq(r, [rec EXCEPT !.pc = "deleteSession",
                                             !.deletedCount = Len(FindReps(reps, sid))])
  /\ UNCHANGED <<cloud, fix, connectDB, db, server, repIndex, nextOid, sessions, users, connections>>

\* variant: the handler does not look at deletedCount of the deleteOne
DeleteSessionIgnoringCount(r) ==
  /\ req[r].kind = "delete" /\ req[r].pc = "deleteSession"
  /\ sessions' = {s \in sessions : s._id # NewObjectId(req[r].sid)}
  /\ SetReq(r, Respond(req[r], 200, NoError))
  /\ UNCHANGED <<cloud, fix, connectDB, db, server, repIndex, nextOid, reps, users, connections>>

\* workout_sessions.deleteOne({_id: new ObjectId(sessionId)}) settled
DeleteSession(r) ==
  /\ req[r].kind = "delete" /\ req[r].pc = "deleteSession"
  /\ \E ok \in BOOLEAN :
       IF ~ok
       THEN SetReq(r, Respond(req[r], 500, StorageError)) /\ UNCHANGED sessions
       ELSE LET hit == {s \in sessions : s._id = NewObjectId(req[r].sid)}
            IN /\ sessions' = sessions \ hit
               /\ IF hit = {}
                  THEN SetReq(r, Respond(req[r], 404, NoError))
                  ELSE SetReq(r, Respond(req[r], 200, NoError))
  /\ UNCHANGED <<cloud, fix, connectDB, db, server, repIndex, nextOid, reps, users, connections>>

\* ------------------------------------------------------ POST /api/auth/signup
Absent == "absent"            \* a field the request body does not carry
Emails == {"asha@x.in", "ravi@x.in"}
Passwords == {"pw-1"}

\* users.findOne({email}): the documents with that email
UsersWithEmail(coll, email) == {i \in DOMAIN coll : coll[i].email = email}

\* `${role.toLowerCase()}_${crypto.randomBytes(8).toString('hex')}`
GeneratedUserId(role, n) == <<role, n>>
\* a userId chosen by the client of POST /api/users/profile
ClientUserId == <<"ATHLETE", 0>>

\* profilePic.startsWith('data:image')
IsInlineImage(pic) == pic = ImagePayload

\* !name || !email || !password || !role
SignupFieldsMissing(name, email, password, role) ==
  name = "" \/ email = "" \/ password = "" \/ role = ""

\* variant: the handler inserts without looking the email up
SignupStartNoLookup(r, name, email, password, role, pic) ==
  /\ server = "listening"
  /\ Free(r)
  /\ ~GetDBThrows
  /\ ~SignupFieldsMissing(name, email, password, role)
  /\ SetReq(r, [IdleReq EXCEPT !.kind = "signup", !.name = name, !.email = email,
                               !.password = password, !.role = role,
                               !.userId = GeneratedUserId(role, nextOid),
                               !.profilePic = pic, !.pc = "signupInsert"])
  /\ nextOid' = nextOid + 1
  /\ UNCHANGED <<cloud, fix, connectDB, db, server, repIndex, sessions, reps, users, connections>>

\* getDB(), validation, users.findOne({email}) settled, userId generated
SignupStart(r, name, email, password, role, pic) ==
  /\ server = "listening"
  /\ Free(r)
  /\ LET rec == [IdleReq EXCEPT !.kind = "signup", !.name = name, !.email = email,
                                !.password = password, !.role = role]
     IN IF GetDBThrows
        THEN SetReq(r, Respond(rec, 500, NotConnected)) /\ UNCHANGED nextOid
        ELSE IF SignupFieldsMissing(name, email, password, role)
        THEN SetReq(r, Respond(rec, 400, NoError)) /\ UNCHANGED nextOid
        ELSE \E ok \in BOOLEAN :
               IF ~ok
               THEN SetReq(r, Respond(rec, 500, StorageError)) /\ UNCHANGED nextOid
               ELSE IF UsersWithEmail(users, email) # {}
               THEN SetReq(r, Respond(rec, 409, NoError)) /\ UNCHANGED nextOid
               ELSE /\ SetReq(r, [rec EXCEPT !.userId = GeneratedUserId(role, nextOid),
                                             !.profilePic = pic,
                                             !.pc = IF IsInlineImage(pic) THEN "signupUpload"
                                                    ELSE "signupInsert"])
                    /\ nextOid' = nextOid + 1
  /\ UNCHANGED <<cloud, fix, connectDB, db, server, repIndex, sessions, reps, users, connections>>

\* uploadImage settled: its URL, or in the catch block the inline picture
SignupUpload(r) ==
  /\ req[r].kind = "signup" /\ req[r].pc = "signupUpload"
  /\ \E ok \in BOOLEAN :
       SetReq(r, [req[r] EXCEPT !.profilePic = IF ok THEN UploadImage(@) ELSE @,
                                !.pc = "signupInsert"])
  /\ UNCHANGED <<cloud, fix, connectDB, db, server, repIndex, nextOid, sessions, reps, users, connections>>

\* the newUser document
NewUser(rec) ==
  [userId |-> rec.userId, name |-> rec.name, email |-> rec.email,
   password |-> rec.password, role |-> rec.role, profilePic |-> rec.profilePic]

\* users.insertOne(newUser) settled
SignupInsert(r) ==
  /\ req[r].kind = "signup" /\ req[r].pc = "signupInsert"
  /\ \E ok \in BOOLEAN :
       IF ~ok
       THEN SetReq(r, Respond(req[r], 500, StorageError)) /\ UNCHANGED users
       ELSE /\ users' = Append(users, NewUser(req[r]))
            /\ SetReq(r, Respond(req[r], 201, NoError))
  /\ UNCHANGED <<cloud, fix, connectDB, db, server, repIndex, nextOid, sessions, reps, connections>>

\* ----------------------------------- POST /api/users/profile, PATCH .../:userId
\* userIds a client can name: those of existing users and one of its own
KnownUserIds == {users[i].userId : i \in DOMAIN users} \cup {ClientUserId}

\* $set of the fields the body carries onto a document
SetFields(doc, email, pic) ==
  [doc EXCEPT !.email = IF email = Absent THEN @ ELSE email,
              !.profilePic = IF pic = Absent THEN @ ELSE pic]

\* updateOne({userId}, {$set}): the first matching document is updated
UpdateFirstUser(coll, userId, email, pic) ==
  LET hits == {i \in DOMAIN coll : coll[i].userId = userId}
      first == CHOOSE i \in hits : \A j \in hits : i <= j
  IN IF hits = {} THEN coll
     ELSE [coll EXCEPT ![first] = SetFields(coll[first], email, pic)]

\* the document an upsert inserts when no user has the userId
UpsertedUser(userId, email, pic) ==
  [userId |-> userId, name |-> Absent, email |-> email, password |-> Absent,
   role |-> Absent, profilePic |-> pic]

\* getDB(); with an inline picture the upload is awaited, else the update
ProfileStart(r, kind, userId, email, pic) ==
  /\ server = "listening"
  /\ Free(r)
  /\ kind \in {"upsertProfile", "patchProfile"}
  /\ LET rec == [IdleReq EXCEPT !.kind = kind, !.userId = userId, !.email = email,
                                !.profilePic = pic]
     IN IF GetDBThrows
        THEN SetReq(r, Respond(rec, 500, NotConnected))
        ELSE SetReq(r, [rec EXCEPT !.pc = IF IsInlineImage(pic) THEN "profileUpload"
                                          ELSE "profileUpdate"])
  /\ UNCHANGED <<cloud, fix, connectDB, db, server, repIndex, nextOid, sessions, reps, users, connections>>

\* uploadImage settled: its URL, or (warning only) the inline picture is kept
ProfileUpload(r) ==
  /\ req[r].kind \in {"upsertProfile", "patchProfile"} /\ req[r].pc = "profileUpload"
  /\ \E ok \in BOOLEAN :
       SetReq(r, [req[r] EXCEPT !.profilePic = IF ok THEN UploadImage(@) ELSE @,
                                !.pc = "profileUpdate"])
  /\ UNCHANGED <<cloud, fix, connectDB, db, server, repIndex, nextOid, sessions, reps, users, connections>>

\* POST /profile: updateOne({userId}, {$set: {...profile, profilePic}},
\* {upsert: true}); an undefined profilePic is written as null
UpsertProfile(r) ==
  /\ req[r].kind = "upsertProfile" /\ req[r].pc = "profileUpdate"
  /\ \E ok \in BOOLEAN :
       IF ~ok
       THEN SetReq(r, Respond(req[r], 500, StorageError)) /\ UNCHANGED users
       ELSE LET pic == IF req[r].profilePic = Absent THEN Null ELSE req[r].profilePic
            IN /\ users' =
                    IF \E i \in DOMAIN users : users[i].userId = req[r].userId
                    THEN UpdateFirstUser(users, req[r].userId, req[r].email, pic)
                    ELSE Append(users, UpsertedUser(req[r].userId, req[r].email, pic))
               /\ SetReq(r, Respond(req[r], 200, NoError))
  /\ UNCHANGED <<cloud, fix, connectDB, db, server, repIndex, nextOid, sessions, reps, connections>>

\* PATCH /profile/:userId: updateOne({userId}, {$set}); matchedCount 0 is a 404
PatchProfile(r) ==
  /\ req[r].kind = "patchProfile" /\ req[r].pc = "profileUpdate"
  /\ \E ok \in BOOLEAN :
       IF ~ok
       THEN SetReq(r, Respond(req[r], 500, StorageError)) /\ UNCHANGED users
       ELSE /\ users' = UpdateFirstUser(users, req[r].userId, req[r].email, req[r].profilePic)
            /\ IF \E i \in DOMAIN users : users[i].userId = req[r].userId
               THEN SetReq(r, Respond(req[r], 200, NoError))
               ELSE SetReq(r, Respond(req[r], 404, NoError))
  /\ UNCHANGED <<cloud, fix, connectDB, db, server, repIndex, nextOid, sessions, reps, connections>>

\* ------------------------------------------------------- /api/connections
ConnUsers == {"u-asha", "u-ravi"}

\* variant: the query matches the request's own direction only
BetweenPairOneWay(c, a, b) == c.fromUserId = a /\ c.toUserId = b

\* {$or: [{fromUserId: a, toUserId: b}, {fromUserId: b, toUserId: a}]}
BetweenPair(c, a, b) ==
  \/ c.fromUserId = a /\ c.toUserId = b
  \/ c.fromUserId = b /\ c.toUserId = a

\* connections.findOne({$or: ...}): positions of the matching documents
ConnectionsBetween(coll, a, b) == {i \in DOMAIN coll : BetweenPair(coll[i], a, b)}

\* findOne returns the first match in natural order
FirstOf(hits) == CHOOSE i \in hits : \A j \in hits : i <= j

\* the request document of POST /request
PendingConnection(oid, from, to) ==
  [_id |-> oid, fromUserId |-> from, toUserId |-> to, status |-> "pending",
   acceptedAt |-> Null, rejectedAt |-> Null]

\* POST /request: getDB(), connections.findOne settled; 400 when one exists
SendRequestStart(r, from, to) ==
  /\ server = "listening"
  /\ Free(r)
  /\ LET rec == [IdleReq EXCEPT !.kind = "sendRequest", !.fromUserId = from, !.toUserId = to]
     IN IF GetDBThrows
        THEN SetReq(r, Respond(rec, 500, NotConnected))
        ELSE \E ok \in BOOLEAN :
               IF ~ok
               THEN SetReq(r, Respond(rec, 500, StorageError))
               ELSE IF ConnectionsBetween(connections, from, to) # {}
               THEN SetReq(r, Respond(rec, 400, NoError))
               ELSE SetReq(r, [rec EXCEPT !.pc = "connInsert"])
  /\ UNCHANGED <<cloud, fix, connectDB, db, server, repIndex, nextOid, sessions, reps, users, connections>>

\* POST /request: connections.insertOne(request) settled
SendRequestInsert(r) ==
  /\ req[r].kind = "sendRequest" /\ req[r].pc = "connInsert"
  /\ \E ok \in BOOLEAN :
       IF ~ok
       THEN /\ SetReq(r, Respond(req[r], 500, StorageError))
            /\ UNCHANGED <<connections, nextOid>>
       ELSE /\ connections' = Append(connections,
                 PendingConnection(nextOid, req[r].fromUserId, req[r].toUserId))
            /\ nextOid' = nextOid + 1
            /\ SetReq(r, Respond(req[r], 200, NoError))
  /\ UNCHANGED <<cloud, fix, connectDB, db, server, repIndex, sessions, reps, users>>

\* request ids a client can name: every id generated so far, one that never
\* existed, and a string that is no ObjectId
KnownRequestIds == {ObjectIdToString(n) : n \in 0..(nextOid - 1)} \cup {MalformedId}

\* variant: the update sets the status only
SetStatusOnly(coll, oid, status) ==
  [i \in DOMAIN coll |->
     IF coll[i]._id = oid THEN [coll[i] EXCEPT !.status = status] ELSE coll[i]]

\* updateOne({_id}, {$set: {status, <status>At: new Date()}})
SetStatus(coll, oid, status) ==
  [i \in DOMAIN coll |->
     IF coll[i]._id = oid
     THEN [coll[i] EXCEPT !.status = status,
                          !.acceptedAt = IF status = "accepted" THEN "date" ELSE @,
                          !.rejectedAt = IF status = "rejected" THEN "date" ELSE @]
     ELSE coll[i]]

\* POST /request/:requestId/accept and .../reject: getDB(), new ObjectId
\* (throws on a malformed id), updateOne settled; 200 whatever was matched
Decide(r, kind, requestId) ==
  /\ server = "listening"
  /\ Free(r)
  /\ kind \in {"accept", "reject"}
  /\ LET rec == [IdleReq EXCEPT !.kind = kind, !.requestId = requestId]
     IN IF GetDBThrows
        THEN SetReq(r, Respond(rec, 500, NotConnected)) /\ UNCHANGED connections
        ELSE IF ~ObjectIdIsValid(requestId)
        THEN SetReq(r, Respond(rec, 500, BSONError)) /\ UNCHANGED connections
        ELSE \E ok \in BOOLEAN :
               IF ~ok
               THEN SetReq(r, Respond(rec, 500, StorageError)) /\ UNCHANGED connections
               ELSE /\ connections' = SetStatus(connections, NewObjectId(requestId),
                                                IF kind = "accept" THEN "accepted" ELSE "rejected")
                    /\ SetReq(r, Respond(rec, 200, NoError))
  /\ UNCHANGED <<cloud, fix, connectDB, db, server, repIndex, nextOid, sessions, reps, users>>

\* the body of GET /status/:userId1/:userId2
StatusOf(coll, a, b) ==
  LET hits == ConnectionsBetween(coll, a, b)
  IN IF hits = {}
     THEN [connected |-> FALSE, status |-> "none", requestId |-> MalformedId]
     ELSE [connected |-> coll[FirstOf(hits)].status = "accepted",
           status |-> coll[FirstOf(hits)].status,
           requestId |-> ObjectIdToString(coll[FirstOf(hits)]._id)]

\* GET /status/:userId1/:userId2: getDB(), connections.findOne settled
GetStatus(r, a, b) ==
  /\ server = "listening"
  /\ Free(r)
  /\ LET rec == [IdleReq EXCEPT !.kind = "status", !.fromUserId = a, !.toUserId = b]
     IN IF GetDBThrows
        THEN SetReq(r, Respond(rec, 500, NotConnected))
        ELSE \E ok \in BOOLEAN :
               IF ~ok
               THEN SetReq(r, Respond(rec, 500, StorageError))
               ELSE SetReq(r, Respond([rec EXCEPT
                        !.connected = StatusOf(connections, a, b).connected,
                        !.connStatus = StatusOf(connections, a, b).status,
                        !.requestId = StatusOf(connections, a, b).requestId], 200, NoError))
  /\ UNCHANGED <<cloud, fix, connectDB, db, server, repIndex, nextOid, sessions, reps, users, connections>>

\* ------------------------------------------------- GET /api/users/discover
\* sort({name: 1}): the order of the names in use (a missing name sorts first)
NameRank(name) == IF name = "Asha" THEN 1 ELSE IF name = "Ravi" THEN 2 ELSE 0

\* one document put into a list kept in ascending name order, after its equals
InsertByName(sorted, d) ==
  LET k == Cardinality({i \in DOMAIN sorted : NameRank(sorted[i].name) <= NameRank(d.name)})
  IN SubSeq(sorted, 1, k) \o <<d>> \o SubSeq(sorted, k + 1, Len(sorted))

RECURSIVE SortByName(_)
SortByName(docs) ==
  IF docs = <<>> THEN <<>>
  ELSE InsertByName(SortByName(SubSeq(docs, 1, Len(docs) - 1)), docs[Len(docs)])

\* variant: every Connection of the user counts, whatever its status
ConnectedUserIdsAnyStatus(coll, userId) ==
  {IF coll[i].fromUserId = userId THEN coll[i].toUserId ELSE coll[i].fromUserId :
     i \in {j \in DOMAIN coll : coll[j].fromUserId = userId \/ coll[j].toUserId = userId}}

\* variant: only the accepted Connections the user sent count
ConnectedUserIdsSentOnly(coll, userId) ==
  {coll[i].toUserId :
     i \in {j \in DOMAIN coll : coll[j].status = "accepted" /\ coll[j].fromUserId = userId}}

\* connections.find({$or: [{fromUserId, status: 'accepted'}, {toUserId, status:
\* 'accepted'}]}) mapped to the other party of each document
ConnectedUserIds(coll, userId) ==
  {IF coll[i].fromUserId = userId THEN coll[i].toUserId ELSE coll[i].fromUserId :
     i \in {j \in DOMAIN coll : /\ coll[j].status = "accepted"
                                /\ (coll[j].fromUserId = userId \/ coll[j].toUserId = userId)}}

\* users.find({userId: {$ne: userId, $nin: connectedUserIds}}).sort({name: 1})
FindDiscoverable(coll, userId, connectedUserIds) ==
  SortByName(SelectSeq(coll, LAMBDA u : u.userId # userId /\ u.userId \notin connectedUserIds))

\* Array.from(new Map(users.map(user => [user.userId, user])).values()): one
\* entry per userId, at the place of its first document, holding its last one
UniqueByUserId(docs) ==
  LET firsts == SelectSeq([i \in DOMAIN docs |-> i],
                          LAMBDA i : \A j \in 1..(i - 1) : docs[j].userId # docs[i].userId)
      lastOf(i) == CHOOSE k \in DOMAIN docs :
                     /\ docs[k].userId = docs[i].userId
                     /\ \A m \in DOMAIN docs : docs[m].userId = docs[i].userId => m <= k
  IN [n \in DOMAIN firsts |-> docs[lastOf(firsts[n])]]

\* a request that carries no userId query parameter
NoUserId == <<"", 0>>

\* GET /discover: getDB(), 400 without userId, connections.find settled
DiscoverStart(r, userId) ==
  /\ server = "listening"
  /\ Free(r)
  /\ LET rec == [IdleReq EXCEPT !.kind = "discover", !.userId = userId]
     IN IF GetDBThrows
        THEN SetReq(r, Respond(rec, 500, NotConnected))
        ELSE IF userId = NoUserId
        THEN SetReq(r, Respond(rec, 400, NoError))
        ELSE \E ok \in BOOLEAN :
               IF ~ok
               THEN SetReq(r, Respond(rec, 500, StorageError))
               ELSE SetReq(r, [rec EXCEPT
                        !.connectedUserIds = ConnectedUserIds(connections, userId),
                        !.pc = "discoverUsers"])
  /\ UNCHANGED <<cloud, fix, connectDB, db, server, repIndex, nextOid, sessions, reps, users, connections>>

\* GET /discover: users.find settled, duplicates removed, res.json(uniqueUsers)
DiscoverUsers(r) ==
  /\ req[r].kind = "discover" /\ req[r].pc = "discoverUsers"
  /\ \E ok \in BOOLEAN :
       IF ~ok
       THEN SetReq(r, Respond(req[r], 500, StorageError))
       ELSE SetReq(r, Respond([req[r] EXCEPT !.found =
                 UniqueByUserId(FindDiscoverable(users, req[r].userId,
                                                 req[r].connectedUserIds))], 200, NoError))
  /\ UNCHANGED <<cloud, fix, connectDB, db, server, repIndex, nextOid, sessions, reps, users, connections>>

\* ------------------------------------------------ GET /api/connections/:userId
\* users.find({userId: {$in: connectedUserIds}}) in natural order
ConnectedUsers(coll, connectedUserIds) ==
  SelectSeq(coll, LAMBDA u : u.userId \in connectedUserIds)

\* GET /:userId: getDB(), connections.find settled, mapped to the other parties
ListConnectionsStart(r, userId) ==
  /\ server = "listening"
  /\ Free(r)
  /\ LET rec == [IdleReq EXCEPT !.kind = "connectionsOf", !.userId = userId]
     IN IF GetDBThrows
        THEN SetReq(r, Respond(rec, 500, NotConnected))
        ELSE \E ok \in BOOLEAN :
               IF ~ok
               THEN SetReq(r, Respond(rec, 500, StorageError))
               ELSE SetReq(r, [rec EXCEPT
                        !.connectedUserIds = ConnectedUserIds(connections, userId),
                        !.pc = "connectionsUsers"])
  /\ UNCHANGED <<cloud, fix, connectDB, db, server, repIndex, nextOid, sessions, reps, users, connections>>

\* GET /:userId: users.find settled, res.json(users)
ListConnectionsUsers(r) ==
  /\ req[r].kind = "connectionsOf" /\ req[r].pc = "connectionsUsers"
  /\ \E ok \in BOOLEAN :
       IF ~ok
       THEN SetReq(r, Respond(req[r], 500, StorageError))
       ELSE SetReq(r, Respond([req[r] EXCEPT !.found =
                 ConnectedUsers(users, req[r].connectedUserIds)], 200, NoError))
  /\ UNCHANGED <<cloud, fix, connectDB, db, server, repIndex, nextOid, sessions, reps, users, connections>>

\* ------------------------------------------------------ POST /api/auth/login
\* users.findOne({email}): the first document with that email
FirstUserWithEmail(coll, email) == coll[FirstOf(UsersWithEmail(coll, email))]

\* POST /login: getDB(), 400 without email or password, users.findOne settled,
\* 404 without a user, 401 when user.password !== password, else 200
Login(r, email, password) ==
  /\ server = "listening"
  /\ Free(r)
  /\ LET rec == [IdleReq EXCEPT !.kind = "login", !.email = email, !.password = password]
     IN IF GetDBThrows
        THEN SetReq(r, Respond(rec, 500, NotConnected))
        ELSE IF email = "" \/ password = ""
        THEN SetReq(r, Respond(rec, 400, NoError))
        ELSE \E ok \in BOOLEAN :
               IF ~ok
               THEN SetReq(r, Respond(rec, 500, StorageError))
               ELSE IF UsersWithEmail(users, email) = {}
               THEN SetReq(r, Respond(rec, 404, NoError))
               ELSE IF FirstUserWithEmail(users, email).password # password
               THEN SetReq(r, Respond(rec, 401, NoError))
               ELSE SetReq(r, Respond([rec EXCEPT
                        !.userId = FirstUserWithEmail(users, email).userId], 200, NoError))
  /\ UNCHANGED <<cloud, fix, connectDB, db, server, repIndex, nextOid, sessions, reps, users, connections>>

\* -------------------------------------------------- POST /api/process-video
NoVideoFile == "No video file provided"
UnsupportedActivity == "Invalid or unsupported activity"
ScriptNotFound == "Script not found"
PathTypeError == "The \"path\" argument must be of type string"
FsError == "file system error"
LaunchDiagnostic == "Failed to start Python process: spawn python ENOENT"
CapturedStderr == "Python script failed with code 1: Traceback (most recent call last)"

\* the keys of the activityScripts object literal (one of them) and a name
\* every object inherits from Object.prototype
MappedActivities == {"Push-ups"}
InheritedKeys == {"constructor"}
ActivityNames == MappedActivities \cup InheritedKeys \cup {"Yoga", ""}

\* activityScripts[activityName]: the script name of an own key, the inherited
\* member (a function, not a string) of an Object.prototype key, else undefined
ActivityScript(activity) ==
  IF activity \in MappedActivities THEN [defined |-> TRUE, string |-> TRUE]
  ELSE IF activity \in InheritedKeys THEN [defined |-> TRUE, string |-> FALSE]
  ELSE [defined |-> FALSE, string |-> FALSE]

\* fs.removeSync(videoPath), then res.json({success: true, outputId, ...result})
FinishProcess(r, rec) ==
  \E removed \in BOOLEAN :
    SetReq(r, IF removed THEN Respond([rec EXCEPT !.uploadOnDisk = FALSE], 200, NoError)
              ELSE Respond(rec, 500, FsError))

\* variant: the handler answers once the subprocess is spawned, without
\* awaiting executeScript
ProcessStartNoAwait(r, hasFile, activity) ==
  /\ server = "listening"
  /\ Free(r)
  /\ hasFile /\ ActivityScript(activity).string
  /\ SetReq(r, Respond([IdleReq EXCEPT !.kind = "process", !.hasFile = hasFile,
                                       !.activity = activity, !.spawned = TRUE,
                                       !.uploadOnDisk = TRUE, !.tempScriptOnDisk = TRUE],
                        200, NoError))
  /\ UNCHANGED <<cloud, fix, connectDB, db, server, repIndex, nextOid, sessions, reps, users, connections>>

\* upload.single('video') has stored the file in the uploads directory; then
\* the handler up to `await executeScript(...)`: file and activity checks, the
\* script lookup on disk, the output directory, the rewritten script written
\* as temp_script.py, spawn
ProcessStart(r, hasFile, activity) ==
  /\ server = "listening"
  /\ Free(r)
  /\ LET rec == [IdleReq EXCEPT !.kind = "process", !.hasFile = hasFile, !.activity = activity,
                                !.uploadOnDisk = hasFile]
     IN IF ~hasFile
        THEN SetReq(r, Respond(rec, 400, NoVideoFile))
        ELSE IF activity = "" \/ ~ActivityScript(activity).defined
        THEN SetReq(r, Respond(rec, 400, UnsupportedActivity))
        ELSE IF ~ActivityScript(activity).string
        THEN SetReq(r, Respond(rec, 500, PathTypeError))
        ELSE \E scriptExists \in BOOLEAN, written \in BOOLEAN :
               IF ~scriptExists
               THEN SetReq(r, Respond(rec, 404, ScriptNotFound))
               ELSE IF ~written
               THEN SetReq(r, Respond(rec, 500, FsError))
               ELSE SetReq(r, [rec EXCEPT !.pc = "running", !.spawned = TRUE,
                                          !.tempScriptOnDisk = TRUE])
  /\ UNCHANGED <<cloud, fix, connectDB, db, server, repIndex, nextOid, sessions, reps, users, connections>>

\* pythonProcess 'error': the promise is rejected with the launch diagnostic
ProcessLaunchError(r) ==
  /\ req[r].kind = "process" /\ req[r].pc = "running"
  /\ SetReq(r, Respond([req[r] EXCEPT !.launchFailed = TRUE], 500, LaunchDiagnostic))
  /\ UNCHANGED <<cloud, fix, connectDB, db, server, repIndex, nextOid, sessions, reps, users, connections>>

\* pythonProcess 'close' after 'error': the temp script is removed, reject() on
\* the already rejected promise has no effect
ProcessCloseAfterError(r) ==
  /\ req[r].kind = "process" /\ req[r].launchFailed /\ ~req[r].exited
  /\ SetReq(r, [req[r] EXCEPT !.exited = TRUE, !.exitCode = 0 - 2,
                              !.tempScriptOnDisk = FALSE])
  /\ UNCHANGED <<cloud, fix, connectDB, db, server, repIndex, nextOid, sessions, reps, users, connections>>

\* pythonProcess 'close' with an exit code: temp_script.py is removed; non-zero
\* rejects with the captured stderr; zero reads the output directory and, with
\* a video artifact, starts the frame extraction
ProcessClose(r, code) ==
  /\ req[r].kind = "process" /\ req[r].pc = "running"
  /\ LET rec == [req[r] EXCEPT !.exited = TRUE, !.exitCode = code, !.tempScriptOnDisk = FALSE]
     IN IF code # 0
        THEN SetReq(r, Respond(rec, 500, CapturedStderr))
        ELSE \E readable \in BOOLEAN, video \in BOOLEAN :
               IF ~readable
               THEN SetReq(r, Respond(rec, 500, FsError))
               ELSE IF video
               THEN SetReq(r, [rec EXCEPT !.videoFile = TRUE, !.extractTried = TRUE,
                                          !.pc = "extracting"])
               ELSE FinishProcess(r, rec)
  /\ UNCHANGED <<cloud, fix, connectDB, db, server, repIndex, nextOid, sessions, reps, users, connections>>

\* variant: result.hasFrames = true is assigned before the extraction is awaited
ExtractSettledFramesFirst(r) ==
  /\ req[r].kind = "process" /\ req[r].pc = "extracting"
  /\ \E ok \in BOOLEAN :
       IF ok
       THEN FinishProcess(r, [req[r] EXCEPT !.hasFrames = TRUE])
       ELSE SetReq(r, [req[r] EXCEPT !.hasFrames = TRUE, !.extractFailed = TRUE,
                                     !.convertTried = TRUE, !.pc = "converting"])
  /\ UNCHANGED <<cloud, fix, connectDB, db, server, repIndex, nextOid, sessions, reps, users, connections>>

\* extractFramesFromVideo settled: hasFrames, or the fallback conversion starts
ExtractSettled(r) ==
  /\ req[r].kind = "process" /\ req[r].pc = "extracting"
  /\ \E ok \in BOOLEAN :
       IF ok
       THEN FinishProcess(r, [req[r] EXCEPT !.hasFrames = TRUE])
       ELSE SetReq(r, [req[r] EXCEPT !.extractFailed = TRUE, !.convertTried = TRUE,
                                     !.pc = "converting"])
  /\ UNCHANGED <<cloud, fix, connectDB, db, server, repIndex, nextOid, sessions, reps, users, connections>>

\* convertVideoToBrowserFormat settled: a failure is only logged
ConvertSettled(r) ==
  /\ req[r].kind = "process" /\ req[r].pc = "converting"
  /\ \E ok \in BOOLEAN : FinishProcess(r, [req[r] EXCEPT !.convertFailed = ~ok])
  /\ UNCHANGED <<cloud, fix, connectDB, db, server, repIndex, nextOid, sessions, reps, users, connections>>

\* ------------------------------------------- GET /api/sessions/all-athletes
\* variant: $group counts the distinct timestamps of an athlete
AthleteGroupDistinct(coll, name) ==
  LET own == {d \in coll : d.athleteName = name}
  IN [name |-> name,
      workoutCount |-> Cardinality({d.timestamp : d \in own}),
      lastWorkout |-> CHOOSE t \in {d.timestamp : d \in own} :
                        \A d \in own : d.timestamp <= t]

\* $group {_id: "$athleteName", workoutCount: {$sum: 1}, lastWorkout: {$max:
\* "$timestamp"}} and $project {name: "$_id", ...} for one athlete name
AthleteGroup(coll, name) ==
  LET own == {d \in coll : d.athleteName = name}
  IN [name |-> name,
      workoutCount |-> Cardinality(own),
      lastWorkout |-> CHOOSE t \in {d.timestamp : d \in own} :
                        \A d \in own : d.timestamp <= t]

\* variant: the groups count distinct timestamps
AthleteGroupsDistinct(coll) ==
  {AthleteGroupDistinct(coll, name) : name \in {d.athleteName : d \in coll}}

\* the groups of the aggregation: one per athleteName present
AthleteGroups(coll) == {AthleteGroup(coll, name) : name \in {d.athleteName : d \in coll}}

\* $sort {lastWorkout: -1}: the orders of the groups it can produce (groups
\* with equal lastWorkout come in either order)
SortedByLastWorkout(groups) ==
  {q \in [1..Cardinality(groups) -> groups] :
     /\ \A i, j \in DOMAIN q : i # j => q[i] # q[j]
     /\ \A i, j \in DOMAIN q : i < j => q[i].lastWorkout >= q[j].lastWorkout}

\* GET /all-athletes: getDB(), the aggregation settled, 200 with the athletes
ListAthletes(r) ==
  /\ server = "listening"
  /\ Free(r)
  /\ LET rec == [IdleReq EXCEPT !.kind = "athletes"]
     IN IF GetDBThrows
        THEN SetReq(r, Respond(rec, 500, NotConnected))
        ELSE \E ok \in BOOLEAN :
               IF ~ok
               THEN SetReq(r, Respond(rec, 500, StorageError))
               ELSE \E athletes \in SortedByLastWorkout(AthleteGroups(sessions)) :
                      SetReq(r, Respond([rec EXCEPT !.found = athletes], 200, NoError))
  /\ UNCHANGED <<cloud, fix, connectDB, db, server, repIndex, nextOid, sessions, reps, users, connections>>

\* ------------------------------------- GET /api/sessions/athlete/:athleteName
\* details objects of a rep image: none (`rep.details || {}`), a metric, and
\* objects that carry a key named like a field of the projection
NoDetails == [k \in {} |-> 0]
DetailObjects == {NoDetails, [angle |-> 90], [correct |-> FALSE], [rep |-> 7]}

\* the rep document of an ingest whose rep image carries correct and details
StoredRep(n, sid, correct, details) ==
  [repNumber |-> n, imageUrl |-> ImageHostUrl, sessionId |-> sid,
   correct |-> correct, details |-> details]

\* {...base, ...details}: the keys of details are written over those of base
SpreadOver(base, details) ==
  [k \in DOMAIN base \cup DOMAIN details |->
     IF k \in DOMAIN details THEN details[k] ELSE base[k]]

\* rep => ({rep: rep.repNumber, correct: rep.correct, ...rep.details})
RepDetail(rep) == SpreadOver([rep |-> rep.repNumber, correct |-> rep.correct], rep.details)

\* find({athleteName}).sort({timestamp: -1}): the orders the sort can produce
\* (sessions with equal timestamps come in either order)
WorkoutsOf(coll, athleteName) ==
  LET own == {d \in coll : d.athleteName = athleteName}
  IN {q \in [1..Cardinality(own) -> own] :
        /\ \A i, j \in DOMAIN q : i # j => q[i] # q[j]
        /\ \A i, j \in DOMAIN q : i < j => q[i].timestamp >= q[j].timestamp}

\* {...workout, screenshots: reps.map(...), repDetails: reps.map(...)}
WorkoutWithReps(workout, found) ==
  [_id |-> workout._id, athleteName |-> workout.athleteName,
   timestamp |-> workout.timestamp, pdfUrl |-> workout.pdfUrl, videoUrl |-> workout.videoUrl,
   screenshots |-> [i \in DOMAIN found |-> found[i].imageUrl],
   repDetails |-> [i \in DOMAIN found |-> RepDetail(found[i])]]

\* getDB(), workout_sessions.find settled; Promise.all starts one rep_images
\* find per workout (with no workout it resolves at once and the handler answers)
ListByAthleteStart(r, athleteName) ==
  /\ server = "listening"
  /\ Free(r)
  /\ LET rec == [IdleReq EXCEPT !.kind = "workouts", !.name = athleteName]
     IN IF GetDBThrows
        THEN SetReq(r, Respond(rec, 500, NotConnected))
        ELSE \E ok \in BOOLEAN :
               IF ~ok
               THEN SetReq(r, Respond(rec, 500, StorageError))
               ELSE \E workouts \in WorkoutsOf(sessions, athleteName) :
                      IF Len(workouts) = 0
                      THEN SetReq(r, Respond(rec, 200, NoError))
                      ELSE SetReq(r, [rec EXCEPT !.workouts = workouts,
                                                 !.workoutsWithReps = [i \in DOMAIN workouts |-> Null],
                                                 !.pending = DOMAIN workouts,
                                                 !.pc = "workoutReps"])
  /\ UNCHANGED <<cloud, fix, connectDB, db, server, repIndex, nextOid, sessions, reps, users, connections>>

\* the rep_images find of one workout settled (in any order among the pending
\* ones); a rejection fails Promise.all, the last result resolves it and the
\* handler answers
ListByAthleteReps(r, i) ==
  /\ req[r].kind = "workouts" /\ req[r].pc = "workoutReps"
  /\ i \in req[r].pending
  /\ \E ok \in BOOLEAN :
       IF ~ok
       THEN SetReq(r, Respond(req[r], 500, StorageError))
       ELSE LET found == RepsForSession(ObjectIdToString(req[r].workouts[i]._id))
                rec == [req[r] EXCEPT !.pending = @ \ {i},
                                      !.workoutsWithReps[i] = WorkoutWithReps(req[r].workouts[i], found)]
            IN IF rec.pending = {}
               THEN SetReq(r, Respond(rec, 200, NoError))
               ELSE SetReq(r, rec)
  /\ UNCHANGED <<cloud, fix, connectDB, db, server, repIndex, nextOid, sessions, reps, users, connections>>

\* ------------------------------------------------ fix-cloudinary-access.js
\* the folders the utility scans, in its order
Folders == <<"talenttrack/reports", "talenttrack/screenshots", "talenttrack/videos">>

\* hosted objects: <<folder index, number>>
AllObjects == (DOMAIN Folders) \X (1..MaxObjects)

\* a media host without objects
NoObjects == [o \in {} |-> "public"]

\* the script before it is run
IdleFix ==
  [pc |-> "idle", run |-> 0, folder |-> 0, resources |-> <<>>, next |-> 0,
   total |-> [f \in DOMAIN Folders |-> 0], updated |-> [f \in DOMAIN Folders |-> 0],
   scanned |-> {}, attempted |-> {}, listFailed |-> FALSE]

\* cloudinary.api.resources({prefix}): the objects under the folder, by number
RECURSIVE ResourcesUpTo(_, _, _)
ResourcesUpTo(objects, f, n) ==
  IF n = 0 THEN <<>>
  ELSE ResourcesUpTo(objects, f, n - 1) \o (IF <<f, n>> \in objects THEN <<<<f, n>>>> ELSE <<>>)

Resources(objects, f) == ResourcesUpTo(objects, f, MaxObjects)

\* `node fix-cloudinary-access.js`: the listing of talenttrack/reports is awaited
FixStart ==
  /\ fix.pc \in {"idle", "done"}
  /\ fix.run < MaxRuns
  /\ fix' = [IdleFix EXCEPT !.pc = "listing", !.run = fix.run + 1, !.folder = 1]
  /\ UNCHANGED <<cloud, connectDB, db, server, repIndex, nextOid, sessions, reps, users, connections, req>>

\* the script after the loop over a folder: the next folder is listed, or the
\* script ends after the videos
AfterFolder(f, rec) ==
  IF f < Len(Folders)
  THEN [rec EXCEPT !.pc = "listing", !.folder = f + 1, !.resources = <<>>, !.next = 0]
  ELSE [rec EXCEPT !.pc = "done"]

\* cloudinary.api.resources settled: a rejection ends the script in the outer
\* catch; no PDF at all ends it with `return`; else the loop over the
\* resources starts
FixListed ==
  /\ fix.pc = "listing"
  /\ \E ok \in BOOLEAN :
       IF ~ok
       THEN fix' = [fix EXCEPT !.pc = "done", !.listFailed = TRUE]
       ELSE LET found == Resources(DOMAIN cloud, fix.folder)
                rec == [fix EXCEPT !.resources = found, !.next = 1,
                                   !.total[fix.folder] = Len(found),
                                   !.scanned = @ \cup {fix.folder}]
            IN IF Len(found) = 0
               THEN IF fix.folder = 1
                    THEN fix' = [rec EXCEPT !.pc = "done"]
                    ELSE fix' = AfterFolder(fix.folder, rec)
               ELSE fix' = [rec EXCEPT !.pc = "updating"]
  /\ UNCHANGED <<cloud, connectDB, db, server, repIndex, nextOid, sessions, reps, users, connections, req>>

\* cloudinary.uploader.explicit(public_id, {access_mode: 'public'}) settled for
\* the current resource: counted on success, logged on failure; then the next
\* resource, or the counts are printed and the script goes on
FixUpdated ==
  /\ fix.pc = "updating"
  /\ \E ok \in BOOLEAN :
       LET o == fix.resources[fix.next]
           rec == [fix EXCEPT !.attempted = @ \cup {o},
                              !.updated[fix.folder] = IF ok THEN @ + 1 ELSE @,
                              !.next = @ + 1]
       IN /\ cloud' = IF ok THEN [cloud EXCEPT ![o] = "public"] ELSE cloud
          /\ fix' = IF rec.next > Len(rec.resources) THEN AfterFolder(fix.folder, rec) ELSE rec
  /\ UNCHANGED <<connectDB, db, server, repIndex, nextOid, sessions, reps, users, connections, req>>

\* ------------------------------------------------------------ specifications
Init ==
  /\ cloud = NoObjects
  /\ fix = IdleFix
  /\ connectDB = "idle"
  /\ db = FALSE
  /\ server = "init"
  /\ repIndex = FALSE
  /\ nextOid = 1
  /\ sessions = {}
  /\ reps = <<>>
  /\ users = <<>>
  /\ connections = <<>>
  /\ req = [r \in AllSlots |-> IdleReq]

\* no ingest was received yet
NoIngestYet == \A r \in Slots : req[r].kind # "ingest"

Gateway ==
  \/ StartServer
  \/ ConnectOk
  \/ ConnectFail
  \/ CreateIndexes

\* one ingest with any rep payload, among deletes of sessions
NextIngest ==
  \/ Gateway
  \/ CreateIndexesUnique
  \/ NoIngestYet /\ \E r \in Slots, imgs \in RepPayloads : IngestStart(r, Null, Null, imgs)
  \/ \E r \in Slots : IngestInsertSession(r)
  \/ \E r \in Slots : IngestCleanup(r)
  \/ \E r \in Slots, i \in 1..MaxReps : IngestRepUpload(r, i)
  \/ \E r \in Slots : IngestInsertMany(r)
  \/ \E r \in Slots, sid \in KnownSessionIds : DeleteStart(r, sid)
  \/ \E r \in Slots : DeleteSession(r)

SpecIngest == Init /\ [][NextIngest]_vars

\* one ingest with inline media and at most one rep image, among deletes
NextMedia ==
  \/ Gateway
  \/ CreateIndexesUnique
  \/ /\ NoIngestYet
     /\ \E r \in Slots, pdf \in {Null, PdfPayload}, video \in {Null, VideoPayload},
           imgs \in SmallPayloads : IngestStart(r, pdf, video, imgs)
  \/ \E r \in Slots : IngestPdf(r)
  \/ \E r \in Slots : IngestVideo(r)
  \/ \E r \in Slots : IngestInsertSession(r)
  \/ \E r \in Slots : IngestCleanup(r)
  \/ \E r \in Slots, i \in 1..MaxReps : IngestRepUpload(r, i)
  \/ \E r \in Slots : IngestInsertMany(r)
  \/ \E r \in Slots, sid \in KnownSessionIds : DeleteStart(r, sid)
  \/ \E r \in Slots : DeleteSession(r)

SpecMedia == Init /\ [][NextMedia]_vars

\* concurrent requests on the session routes, payloads of at most one rep image
\* and no inline media
NextSessions ==
  \/ Gateway
  \/ CreateIndexesUnique
  \/ \E r \in Slots, imgs \in SmallPayloads : IngestStart(r, Null, Null, imgs)
  \/ \E r \in Slots : IngestInsertSession(r)
  \/ \E r \in Slots : IngestCleanup(r)
  \/ \E r \in Slots, i \in 1..MaxReps : IngestRepUpload(r, i)
  \/ \E r \in Slots : IngestInsertMany(r)
  \/ \E r \in Slots, sid \in KnownSessionIds : GetReps(r, sid)
  \/ \E r \in Slots, sid \in KnownSessionIds : DeleteStart(r, sid)
  \/ \E r \in Slots : DeleteSession(r)

SpecSessions == Init /\ [][NextSessions]_vars

\* request bodies of POST /api/auth/signup: complete ones, one with an inline
\* picture, one without email
SignupBodies ==
  [name : {"Asha"}, email : Emails \cup {""}, password : Passwords,
   role : {"ATHLETE"}, profilePic : {""}]
  \cup [name : {"Asha"}, email : {"asha@x.in"}, password : Passwords,
        role : {"ATHLETE"}, profilePic : {ImagePayload}]

\* request bodies of the profile routes: an email change or a new picture
ProfileBodies ==
  [email : Emails \cup {Absent}, profilePic : {Absent}]
  \cup [email : {Absent}, profilePic : {ImagePayload}]

\* concurrent requests on the signup and profile routes
NextUsers ==
  \/ Gateway
  \/ \E r \in Slots, b \in SignupBodies :
        SignupStart(r, b.name, b.email, b.password, b.role, b.profilePic)
  \/ \E r \in Slots : SignupUpload(r)
  \/ \E r \in Slots : SignupInsert(r)
  \/ \E r \in Slots, kind \in {"upsertProfile", "patchProfile"}, u \in KnownUserIds,
        b \in ProfileBodies : ProfileStart(r, kind, u, b.email, b.profilePic)
  \/ \E r \in Slots : ProfileUpload(r)
  \/ \E r \in Slots : UpsertProfile(r)
  \/ \E r \in Slots : PatchProfile(r)

SpecUsers == Init /\ [][NextUsers]_vars

\* concurrent requests on the connection routes
NextConnections ==
  \/ Gateway
  \/ \E r \in SocialSlots, from \in ConnUsers, to \in ConnUsers :
        SendRequestStart(r, from, to)
  \/ \E r \in SocialSlots : SendRequestInsert(r)
  \/ \E r \in SocialSlots, kind \in {"accept", "reject"}, id \in KnownRequestIds :
        Decide(r, kind, id)
  \/ \E r \in SocialSlots, a \in ConnUsers : \E b \in ConnUsers \ {a} : GetStatus(r, a, b)

SpecConnections == Init /\ [][NextConnections]_vars

\* ---------------------------------------------- discover on a populated store
\* the User document of the n-th signup
StoredUser(n) ==
  [userId |-> GeneratedUserId("ATHLETE", n), name |-> IF n % 2 = 1 THEN "Ravi" ELSE "Asha",
   email |-> <<"user", n>>, password |-> "pw-1", role |-> "ATHLETE", profilePic |-> ""]

StoredUserIds == {GeneratedUserId("ATHLETE", n) : n \in 1..MaxUsers}

\* users collections the signups of up to MaxUsers users leave, in any order
StoredUsers ==
  {q \in SeqsUpTo({StoredUser(n) : n \in 1..MaxUsers}, MaxUsers) :
     \A i, j \in DOMAIN q : i # j => q[i] # q[j]}

\* connections collections: empty, or one document between stored users
StoredConnections ==
  {<<>>} \cup
  {<<[PendingConnection(1, from, to) EXCEPT !.status = st]>> :
     from \in StoredUserIds, to \in StoredUserIds, st \in {"pending", "accepted", "rejected"}}

\* a listening, connected server over a populated store
InitDiscover ==
  /\ cloud = NoObjects
  /\ fix = IdleFix
  /\ connectDB = "resolved"
  /\ db = TRUE
  /\ server = "listening"
  /\ repIndex = FALSE
  /\ nextOid = 2
  /\ sessions = {}
  /\ reps = <<>>
  /\ users \in StoredUsers
  /\ connections \in StoredConnections
  /\ req = [r \in AllSlots |-> IdleReq]

\* discover requests among accepts and rejects of the stored request
NextDiscover ==
  \/ \E r \in Slots, userId \in StoredUserIds \cup {NoUserId} : DiscoverStart(r, userId)
  \/ \E r \in Slots : DiscoverUsers(r)
  \/ \E r \in Slots, kind \in {"accept", "reject"} : Decide(r, kind, ObjectIdToString(1))

SpecDiscover == InitDiscover /\ [][NextDiscover]_vars

\* no request of the kind was received yet
NoneOfKind(kind) == \A r \in Slots : req[r].kind # kind

\* the user whose connections are listed and the user who asks for discover
\* (the stored request runs in either direction between them)
ListingUserId == GeneratedUserId("ATHLETE", 1)
DiscoveringUserId == GeneratedUserId("ATHLETE", 2)

\* one connection listing and one discover request among an accept and a
\* reject of the stored request
NextSocialLists ==
  \/ /\ NoneOfKind("connectionsOf")
     /\ \E r \in Slots : ListConnectionsStart(r, ListingUserId)
  \/ \E r \in Slots : ListConnectionsUsers(r)
  \/ /\ NoneOfKind("discover")
     /\ \E r \in Slots : DiscoverStart(r, DiscoveringUserId)
  \/ \E r \in Slots : DiscoverUsers(r)
  \/ \E r \in Slots, kind \in {"accept", "reject"} :
       /\ NoneOfKind(kind)
       /\ Decide(r, kind, ObjectIdToString(1))

SpecSocialLists == InitDiscover /\ [][NextSocialLists]_vars

\* ------------------------------------------------ delete on a populated store
\* rep_images collections an ingest of session 1 (and deletes) can leave
StoredReps ==
  SeqsUpTo({RepDoc(RepImage(n), ObjectIdToString(1), TRUE) : n \in 1..MaxReps}, MaxReps)

\* a listening, connected server whose store holds session 1 or only its reps
InitDelete ==
  /\ cloud = NoObjects
  /\ fix = IdleFix
  /\ connectDB = "resolved"
  /\ db = TRUE
  /\ server = "listening"
  /\ repIndex = FALSE
  /\ nextOid = 2
  /\ sessions \in {{}, {SessionDoc(1, IdleReq)}}
  /\ reps \in StoredReps
  /\ users = <<>>
  /\ connections = <<>>
  /\ req = [r \in AllSlots |-> IdleReq]

\* concurrent delete requests
NextDelete ==
  \/ \E r \in Slots, sid \in KnownSessionIds : DeleteStart(r, sid)
  \/ \E r \in Slots : DeleteSession(r)

SpecDelete == InitDelete /\ [][NextDelete]_vars

\* ------------------------------------------------- login on a populated store
LoginPasswords == {"pw-1", "pw-2"}

\* users collections of up to MaxUsers accounts; two accounts can carry one
\* email (signup races, profile updates)
StoredAccounts ==
  UNION {[1..n -> Emails \X LoginPasswords] : n \in 0..MaxUsers}

InitLogin ==
  /\ cloud = NoObjects
  /\ fix = IdleFix
  /\ connectDB = "resolved"
  /\ db = TRUE
  /\ server = "listening"
  /\ repIndex = FALSE
  /\ nextOid = MaxUsers + 1
  /\ sessions = {}
  /\ reps = <<>>
  /\ \E acc \in StoredAccounts :
       users = [i \in DOMAIN acc |->
                  [StoredUser(i) EXCEPT !.email = acc[i][1], !.password = acc[i][2]]]
  /\ connections = <<>>
  /\ req = [r \in AllSlots |-> IdleReq]

\* login requests
NextLogin ==
  \E r \in Slots, email \in Emails \cup {""}, password \in LoginPasswords \cup {""} :
    Login(r, email, password)

SpecLogin == InitLogin /\ [][NextLogin]_vars

\* concurrent video submissions
NextProcess ==
  \/ Gateway
  \/ \E r \in Slots, hasFile \in BOOLEAN, activity \in ActivityNames :
        ProcessStart(r, hasFile, activity)
  \/ \E r \in Slots : ProcessLaunchError(r)
  \/ \E r \in Slots : ProcessCloseAfterError(r)
  \/ \E r \in Slots, code \in {0, 1} : ProcessClose(r, code)
  \/ \E r \in Slots : ExtractSettled(r)
  \/ \E r \in Slots : ConvertSettled(r)

SpecProcess == Init /\ [][NextProcess]_vars

\* the steps that settle what a video submission awaits: the subprocess closes
\* or fails to launch, the frame extraction and the conversion end
ProcessSettles(r) ==
  \/ ProcessLaunchError(r)
  \/ \E code \in {0, 1} : ProcessClose(r, code)
  \/ ExtractSettled(r)
  \/ ConvertSettled(r)

\* video submissions whose subprocess and ffmpeg steps all terminate
SpecProcessLive ==
  Init /\ [][NextProcess]_vars /\ \A r \in Slots : WF_vars(ProcessSettles(r))

\* --------------------------------------------- athletes of a populated store
AthleteNames == {"Asha", "Ravi"}

\* the session document of an ingest whose sessionMeta carries athleteName and
\* timestamp
StoredSession(oid, name, ts) ==
  [_id |-> oid, pdfUrl |-> Null, videoUrl |-> Null, athleteName |-> name, timestamp |-> ts]

\* workout_sessions collections of up to MaxSessions ingests
StoredSessions ==
  UNION {{{StoredSession(i, f[i][1], f[i][2]) : i \in 1..n} :
            f \in [1..n -> AthleteNames \X (1..MaxSessions)]} : n \in 0..MaxSessions}

InitAthletes ==
  /\ cloud = NoObjects
  /\ fix = IdleFix
  /\ connectDB = "resolved"
  /\ db = TRUE
  /\ server = "listening"
  /\ repIndex = FALSE
  /\ nextOid = MaxSessions + 1
  /\ sessions \in StoredSessions
  /\ reps = <<>>
  /\ users = <<>>
  /\ connections = <<>>
  /\ req = [r \in AllSlots |-> IdleReq]

\* athlete listings among deletes of sessions
NextAthletes ==
  \/ \E r \in Slots : ListAthletes(r)
  \/ \E r \in Slots, sid \in KnownSessionIds : DeleteStart(r, sid)
  \/ \E r \in Slots : DeleteSession(r)

SpecAthletes == InitAthletes /\ [][NextAthletes]_vars

\* --------------------------------------------- workouts of a populated store
\* rep_images collections the ingest of session 1 can leave
StoredRepDetails ==
  SeqsUpTo({StoredRep(n, ObjectIdToString(1), TRUE, d) : n \in 1..MaxReps, d \in DetailObjects},
           MaxReps)

InitWorkouts ==
  /\ cloud = NoObjects
  /\ fix = IdleFix
  /\ connectDB = "resolved"
  /\ db = TRUE
  /\ server = "listening"
  /\ repIndex = FALSE
  /\ nextOid = MaxSessions + 1
  /\ sessions \in StoredSessions
  /\ reps \in StoredRepDetails
  /\ users = <<>>
  /\ connections = <<>>
  /\ req = [r \in AllSlots |-> IdleReq]

\* workout listings of an athlete among deletes of sessions
NextWorkouts ==
  \/ \E r \in Slots, athleteName \in AthleteNames : ListByAthleteStart(r, athleteName)
  \/ \E r \in Slots, i \in 1..MaxSessions : ListByAthleteReps(r, i)
  \/ \E r \in Slots, sid \in KnownSessionIds : DeleteStart(r, sid)
  \/ \E r \in Slots : DeleteSession(r)

SpecWorkouts == InitWorkouts /\ [][NextWorkouts]_vars

\* ------------------------------------------------ one ingest, step by step
\* a listening, connected server over an empty store
InitServing ==
  /\ cloud = NoObjects
  /\ fix = IdleFix
  /\ connectDB = "resolved"
  /\ db = TRUE
  /\ server = "listening"
  /\ repIndex = FALSE
  /\ nextOid = 1
  /\ sessions = {}
  /\ reps = <<>>
  /\ users = <<>>
  /\ connections = <<>>
  /\ req = [r \in AllSlots |-> IdleReq]

\* payloads whose rep images are numbered 1, 2, ...
NumberedPayloads == {p \in RepPayloads : \A i \in DOMAIN p : p[i].repNumber = i}

\* one ingest with any inline media and a numbered rep payload, among deletes
NextIngestOrder ==
  \/ /\ NoIngestYet
     /\ \E r \in Slots, pdf \in {Null, PdfPayload}, video \in {Null, VideoPayload},
           imgs \in NumberedPayloads : IngestStart(r, pdf, video, imgs)
  \/ \E r \in Slots : IngestPdf(r)
  \/ \E r \in Slots : IngestVideo(r)
  \/ \E r \in Slots : IngestInsertSession(r)
  \/ \E r \in Slots : IngestCleanup(r)
  \/ \E r \in Slots, i \in 1..MaxReps : IngestRepUpload(r, i)
  \/ \E r \in Slots : IngestInsertMany(r)
  \/ \E r \in Slots, sid \in KnownSessionIds : DeleteStart(r, sid)
  \/ \E r \in Slots : DeleteSession(r)

SpecIngestOrder == InitServing /\ [][NextIngestOrder]_vars

\* ------------------------------------------------- the remediation utility
\* media hosts: any objects in the three folders, public or not
HostedObjects ==
  UNION {[O -> {"public", "authenticated"}] : O \in SUBSET AllObjects}

InitFix ==
  /\ cloud \in HostedObjects
  /\ fix = IdleFix
  /\ connectDB = "idle"
  /\ db = FALSE
  /\ server = "init"
  /\ repIndex = FALSE
  /\ nextOid = 1
  /\ sessions = {}
  /\ reps = <<>>
  /\ users = <<>>
  /\ connections = <<>>
  /\ req = [r \in AllSlots |-> IdleReq]

\* runs of the utility, one after the other
NextFix ==
  \/ FixStart
  \/ FixListed
  \/ FixUpdated

SpecFix == InitFix /\ [][NextFix]_vars

Next ==
  \/ NextMedia
  \/ NextIngest
  \/ NextSessions
  \/ NextUsers
  \/ NextConnections
  \/ NextDiscover
  \/ NextDelete
  \/ NextLogin
  \/ NextProcess
  \/ NextAthletes
  \/ NextWorkouts
  \/ NextIngestOrder
  \/ NextFix
  \/ NextSocialLists

Spec == Init /\ [][Next]_vars

\* ------------------------------------------------------------------ claims
IngestDone(r) == req[r].kind = "ingest" /\ req[r].pc = "done"
SessionExists(sid) == \E s \in sessions : s._id = NewObjectId(sid)

\* C1: an ingest whose PDF (or video) upload failed answers 200 unless the
\* document store itself failed, never reports the upload failure, and returns
\* and persists the inline payload as pdfUrl (videoUrl).
C1_UploadFailureFallsBack ==
  \A r \in Slots :
    /\ IngestDone(r) =>
         /\ req[r].status \in {200, 500}
         /\ req[r].status = 500 => req[r].error \in {NotConnected, StorageError}
         /\ req[r].status = 200 /\ req[r].pdfFailed => req[r].pdfUrl = req[r].pdfData
         /\ req[r].status = 200 /\ req[r].videoFailed => req[r].videoUrl = req[r].videoData
    /\ req[r].kind = "ingest" /\ ObjectIdIsValid(req[r].sid) =>
         \A s \in sessions :
           s._id = NewObjectId(req[r].sid) =>
             /\ req[r].pdfFailed => s.pdfUrl = req[r].pdfData
             /\ req[r].videoFailed => s.videoUrl = req[r].videoData

C1_Witness ==
  \E r \in Slots :
    /\ IngestDone(r) /\ req[r].status = 200
    /\ req[r].pdfFailed /\ req[r].pdfUrl = PdfPayload
    /\ req[r].videoFailed /\ req[r].videoUrl = VideoPayload
    /\ \E s \in sessions : s._id = NewObjectId(req[r].sid) /\ s.pdfUrl = PdfPayload

\* C2: after a successful ingest of N rep images with pairwise distinct
\* repNumbers, and as long as no delete was issued for the session,
\* repsForSession(sessionId) is N documents of that session in strictly
\* ascending repNumber order.
DistinctRepNumbers(imgs) ==
  \A i, j \in DOMAIN imgs : i # j => imgs[i].repNumber # imgs[j].repNumber

DeleteIssued(sid) == \E d \in Slots : req[d].kind = "delete" /\ req[d].sid = sid

C2_RepsForSessionComplete ==
  \A r \in Slots :
    (/\ IngestDone(r) /\ req[r].status = 200
     /\ DistinctRepNumbers(req[r].repImages)
     /\ ~DeleteIssued(req[r].sid))
    => LET found == RepsForSession(req[r].sid)
       IN /\ Len(found) = Len(req[r].repImages)
          /\ \A i \in DOMAIN found : found[i].sessionId = req[r].sid
          /\ \A i \in DOMAIN found : \E j \in DOMAIN req[r].repImages :
               req[r].repImages[j].repNumber = found[i].repNumber
          /\ \A i, j \in DOMAIN found : i < j => found[i].repNumber < found[j].repNumber

C2_Witness ==
  \E r \in Slots :
    /\ IngestDone(r) /\ req[r].status = 200
    /\ Len(req[r].repImages) = MaxReps
    /\ DistinctRepNumbers(req[r].repImages)
    /\ req[r].repImages[1].repNumber > req[r].repImages[2].repNumber
    /\ ~DeleteIssued(req[r].sid)
    /\ Len(RepsForSession(req[r].sid)) = MaxReps

\* C3: once a delete of a session answered 200, repsForSession of that session
\* is empty, whatever was interleaved with the delete.
C3_NoRepsAfterDelete ==
  \A d \in Slots :
    req[d].kind = "delete" /\ req[d].pc = "done" /\ req[d].status = 200
      => RepsForSession(req[d].sid) = <<>>

\* C4 as stated: the delete is transactional, so no state shows a session whose
\* rep images a delete has removed while the session document still exists.
C4_TransactionalDelete ==
  \A d \in Slots :
    req[d].kind = "delete" /\ req[d].deletedCount > 0 => ~SessionExists(req[d].sid)

\* C4 as amended: the delete is two separate store operations, rep images
\* first: a session document is only ever removed by a delete request whose
\* rep-image deleteMany has already completed, and that request answers 200.
C4_RepsBeforeSession ==
  [][\A s \in sessions :
       s \notin sessions' =>
         \E d \in Slots :
           /\ req[d].kind = "delete" /\ req[d].pc = "deleteSession"
           /\ NewObjectId(req[d].sid) = s._id
           /\ req'[d].pc = "done" /\ req'[d].status = 200]_vars

\* the window of the two-step delete made permanent by a failed second step
C4_Witness ==
  \E d \in Slots :
    /\ req[d].kind = "delete" /\ req[d].pc = "done"
    /\ req[d].status = 500 /\ req[d].error = StorageError
    /\ req[d].deletedCount > 0
    /\ SessionExists(req[d].sid)
    /\ RepsForSession(req[d].sid) = <<>>

\* C5: a signup whose body is complete and whose email lookup finds a user
\* answers 409 in that step and leaves the users collection as it was.
C5_DuplicateEmailConflict ==
  [][\A r \in Slots :
       (/\ req[r].pc = "idle" /\ req'[r].kind = "signup"
        /\ ~SignupFieldsMissing(req'[r].name, req'[r].email, req'[r].password, req'[r].role)
        /\ req'[r].error = NoError
        /\ \E i \in DOMAIN users : users[i].email = req'[r].email)
       => /\ req'[r].pc = "done" /\ req'[r].status = 409
          /\ users' = users]_vars

C5_Witness ==
  \E r \in Slots :
    /\ req[r].kind = "signup" /\ req[r].pc = "done" /\ req[r].status = 409
    /\ \E i \in DOMAIN users :
         users[i].email = req[r].email /\ users[i].password \in Passwords

\* C6: no two User documents carry the same email.
C6_UniqueEmail ==
  \A i, j \in DOMAIN users :
    i # j /\ users[i].email # Absent => users[i].email # users[j].email

\* the unordered pair of a Connection document
PairOf(c) == {c.fromUserId, c.toUserId}

\* C7: at most one Connection document per unordered pair of users.
C7_OneConnectionPerPair ==
  \A i, j \in DOMAIN connections :
    i # j => PairOf(connections[i]) # PairOf(connections[j])

\* C9: status(a, b) reports connected exactly when an accepted Connection
\* exists between a and b, "none" exactly when no Connection exists, and
\* otherwise the status of a stored Connection of the pair.
C9_StatusMatchesStore ==
  \A a, b \in ConnUsers :
    LET between == {i \in DOMAIN connections : PairOf(connections[i]) = {a, b}}
        answer == StatusOf(connections, a, b)
    IN /\ answer.connected <=> \E i \in between : connections[i].status = "accepted"
       /\ answer.status = "none" <=> between = {}
       /\ answer.status # "none" => \E i \in between : connections[i].status = answer.status
       /\ between = {} => ~answer.connected

\* C10: a sendRequest whose lookup finds a Connection of the pair (either
\* direction, any status) answers 400 in that step and inserts nothing; one
\* whose lookup finds none goes on to insert, and its insert adds exactly one
\* pending Connection from -> to.
C10_SendRequestGuard ==
  [][\A r \in SocialSlots :
       /\ (/\ req[r].pc = "idle" /\ req'[r].kind = "sendRequest"
           /\ req'[r].error = NoError)
          => /\ connections' = connections
             /\ IF \E i \in DOMAIN connections :
                     PairOf(connections[i]) = {req'[r].fromUserId, req'[r].toUserId}
                THEN req'[r].pc = "done" /\ req'[r].status = 400
                ELSE req'[r].pc = "connInsert"
       /\ (/\ req[r].kind = "sendRequest" /\ req[r].pc = "connInsert"
           /\ req'[r].pc = "done" /\ req'[r].status = 200)
          => /\ Len(connections') = Len(connections) + 1
             /\ SubSeq(connections', 1, Len(connections)) = connections
             /\ connections'[Len(connections')].fromUserId = req[r].fromUserId
             /\ connections'[Len(connections')].toUserId = req[r].toUserId
             /\ connections'[Len(connections')].status = "pending"
       /\ (req[r].kind = "sendRequest" /\ req'[r] # req[r] /\ req'[r].status # 200)
          => connections' = connections]_vars

\* a request from b to a was refused because a -> b had been rejected
C10_Witness ==
  \E r \in SocialSlots :
    /\ req[r].kind = "sendRequest" /\ req[r].pc = "done" /\ req[r].status = 400
    /\ \E i \in DOMAIN connections :
         /\ connections[i].fromUserId = req[r].toUserId
         /\ connections[i].toUserId = req[r].fromUserId
         /\ connections[i].fromUserId # connections[i].toUserId
         /\ connections[i].status = "rejected"

\* C8: no two rep_images documents of one session share a repNumber.
C8_UniqueRepNumberPerSession ==
  \A i, j \in DOMAIN reps :
    i # j => ~(reps[i].sessionId = reps[j].sessionId /\ reps[i].repNumber = reps[j].repNumber)

\* C11: discover(userId) answers with exactly the users other than userId that
\* have no accepted Connection with userId in the connections the handler
\* read; parties of pending or rejected Connections are returned, and no
\* userId appears twice.
C11_DiscoverExcludesConnected ==
  [][\A r \in Slots :
       /\ (/\ req[r].pc = "idle" /\ req'[r].kind = "discover"
           /\ req'[r].pc = "discoverUsers")
          => req'[r].connectedUserIds =
               {v \in StoredUserIds :
                  \E i \in DOMAIN connections :
                    /\ connections[i].status = "accepted"
                    /\ \/ connections[i].fromUserId = req'[r].userId /\ connections[i].toUserId = v
                       \/ connections[i].toUserId = req'[r].userId /\ connections[i].fromUserId = v}
       /\ (/\ req[r].kind = "discover" /\ req[r].pc = "discoverUsers"
           /\ req'[r].pc = "done" /\ req'[r].status = 200)
          => /\ Range(req'[r].found) =
                  {users[i] : i \in {j \in DOMAIN users :
                                       /\ users[j].userId # req[r].userId
                                       /\ users[j].userId \notin req[r].connectedUserIds}}
             /\ \A i, j \in DOMAIN req'[r].found :
                  i # j => req'[r].found[i].userId # req'[r].found[j].userId]_vars

\* a discover answered with a user whose request to the caller is not accepted
C11_Witness ==
  \E r \in Slots :
    /\ req[r].kind = "discover" /\ req[r].pc = "done" /\ req[r].status = 200
    /\ \E i \in DOMAIN connections, k \in DOMAIN req[r].found :
         /\ connections[i].status \in {"pending", "rejected"}
         /\ connections[i].toUserId = req[r].userId
         /\ connections[i].fromUserId = req[r].found[k].userId
         /\ connections[i].fromUserId # req[r].userId

\* C12: getDB() throws the not-connected error in every state in which
\* connectDB() has not resolved (not called, pending, index creation under
\* way, rejected) and returns the handle once it resolved.
C12_GetDBFailsUntilResolved == GetDBThrows <=> connectDB # "resolved"

\* C13: an ingest request in flight is only ever failed (500) by the step that
\* settles the session insert or by the step that settles the rep bulk insert.
C13_OnlyPrimaryInsertsFail ==
  [][\A r \in Slots :
       (/\ req[r].kind = "ingest" /\ req[r].pc # "done"
        /\ req'[r].pc = "done" /\ req'[r].status = 500)
       => \/ req[r].pc = "insertSession"
          \/ req[r].pc = "uploads" /\ req[r].pending = {}]_vars

\* C14: when the rep bulk insert of an ingest collides with the unique index
\* (and the store reports nothing else), the request answers 200 with its
\* sessionId, the session and the rep images already stored stay as they
\* were, and every rep document that did not collide is stored.
C14_DuplicateKeySwallowed ==
  [][\A r \in Slots :
       (/\ req[r].kind = "ingest" /\ req[r].pc = "uploads" /\ req[r].pending = {}
        /\ req'[r].pc = "done" /\ req'[r].error # StorageError
        /\ repIndex /\ ~DistinctRepNumbers(req[r].repImages))
       => /\ req'[r].status = 200
          /\ req'[r].sid = req[r].sid /\ ObjectIdIsValid(req[r].sid)
          /\ sessions' = sessions
          /\ SubSeq(reps', 1, Len(reps)) = reps
          /\ \A i \in DOMAIN req[r].repsWithUrls :
               (\A j \in 1..(i - 1) :
                  req[r].repsWithUrls[j].repNumber # req[r].repsWithUrls[i].repNumber)
               => \E k \in DOMAIN reps' : reps'[k] = req[r].repsWithUrls[i]
          /\ Len(reps') - Len(reps) =
               Cardinality({req[r].repImages[i].repNumber : i \in DOMAIN req[r].repImages})]_vars

\* an ingest that sent a repNumber twice answered 200 and kept the first one
C14_Witness ==
  \E r \in Slots :
    /\ IngestDone(r) /\ req[r].status = 200 /\ repIndex
    /\ ~DistinctRepNumbers(req[r].repImages)
    /\ SessionExists(req[r].sid)
    /\ Len(RepsForSession(req[r].sid)) = 1
    /\ RepsForSession(req[r].sid)[1] = req[r].repsWithUrls[1]

C16_LoginMatchesPassword ==
  [][\A r \in Slots :
       (/\ req[r].pc = "idle" /\ req'[r].kind = "login"
        /\ req'[r].error = NoError /\ req'[r].status # 400)
       => /\ users' = users
          /\ req'[r].pc = "done" /\ req'[r].status \in {200, 401, 404}
          /\ req'[r].status = 404 <=>
               ~\E i \in DOMAIN users : users[i].email = req'[r].email
          /\ req'[r].status = 200 <=>
               \E i \in DOMAIN users : /\ users[i].email = req'[r].email
                                        /\ users[i].password = req'[r].password]_vars

\* C17: a submitted video gets at most one response, and exactly one once its
\* handler is done; an activity name that is not mapped is answered 400
\* "unsupported" with no subprocess spawned; a non-zero exit answers 500 with
\* the captured stderr and a launch failure 500 with its diagnostic; no 200
\* is sent for a subprocess that exited non-zero.
C17_OneOutcomePerVideo ==
  \A r \in Slots :
    req[r].kind = "process" =>
      /\ req[r].responses <= 1
      /\ req[r].pc = "done" <=> req[r].responses = 1
      /\ req[r].hasFile /\ req[r].activity \notin MappedActivities =>
           /\ ~req[r].spawned
           /\ req[r].pc = "done" /\ req[r].status = 400 /\ req[r].error = UnsupportedActivity
      /\ req[r].exited /\ req[r].exitCode # 0 /\ ~req[r].launchFailed =>
           req[r].status = 500 /\ req[r].error = CapturedStderr
      /\ req[r].launchFailed => req[r].status = 500 /\ req[r].error = LaunchDiagnostic
      /\ req[r].exited /\ req[r].exitCode # 0 => req[r].status # 200

\* C18: frame extraction is attempted only for a subprocess that exited with 0
\* and left a video artifact, the fallback conversion only after the
\* extraction failed; when both failed the request still answers 200 (unless
\* removing the upload threw), and hasFrames is set only by a successful
\* extraction.
C18_PreviewFallback ==
  \A r \in Slots :
    req[r].kind = "process" =>
      /\ req[r].extractTried => req[r].videoFile /\ req[r].exited /\ req[r].exitCode = 0
      /\ req[r].convertTried => req[r].extractTried /\ req[r].extractFailed
      /\ req[r].convertFailed => req[r].convertTried
      /\ req[r].hasFrames => req[r].extractTried /\ ~req[r].extractFailed
      /\ req[r].pc = "done" /\ req[r].extractFailed /\ req[r].convertFailed =>
           \/ req[r].status = 200 /\ ~req[r].hasFrames
           \/ req[r].status = 500 /\ req[r].error = FsError

\* both the extraction and the conversion failed and the request answered 200
C18_Witness ==
  \E r \in Slots :
    /\ req[r].kind = "process" /\ req[r].pc = "done" /\ req[r].status = 200
    /\ req[r].videoFile /\ req[r].extractFailed /\ req[r].convertFailed
    /\ ~req[r].hasFrames

\* C19: an accept (reject) of a request id answers 200 and leaves the
\* Connection with that id accepted with acceptedAt set (rejected with
\* rejectedAt set), every other Connection untouched; on a Connection already
\* in that status the status stays what it was.
C19_DecideSetsStatus ==
  [][\A r \in SocialSlots :
       (/\ req[r].pc = "idle" /\ req'[r].kind \in {"accept", "reject"}
        /\ req'[r].error = NoError)
       => /\ req'[r].pc = "done" /\ req'[r].status = 200
          /\ DOMAIN connections' = DOMAIN connections
          /\ \A i \in DOMAIN connections :
               IF ObjectIdToString(connections[i]._id) = req'[r].requestId
               THEN /\ connections'[i].fromUserId = connections[i].fromUserId
                    /\ connections'[i].toUserId = connections[i].toUserId
                    /\ IF req'[r].kind = "accept"
                       THEN /\ connections'[i].status = "accepted"
                            /\ connections'[i].acceptedAt # Null
                       ELSE /\ connections'[i].status = "rejected"
                            /\ connections'[i].rejectedAt # Null
                    /\ connections[i].status = connections'[i].status
                         => connections'[i] = connections[i]
               ELSE connections'[i] = connections[i]]_vars

\* the same request was accepted twice, both answered 200
C19_Witness ==
  \E r, q \in SocialSlots :
    /\ r # q
    /\ req[r].kind = "accept" /\ req[r].pc = "done" /\ req[r].status = 200
    /\ req[q].kind = "accept" /\ req[q].pc = "done" /\ req[q].status = 200
    /\ req[r].requestId = req[q].requestId
    /\ \E i \in DOMAIN connections :
         /\ ObjectIdToString(connections[i]._id) = req[r].requestId
         /\ connections[i].status = "accepted" /\ connections[i].acceptedAt # Null

\* C20: the answer of listAthletes has one entry per athleteName that has a
\* session and none for other names; an entry's workoutCount is the number of
\* sessions with that athleteName and its lastWorkout their latest timestamp;
\* the entries come in descending order of lastWorkout.
C20_AthleteCounts ==
  [][\A r \in Slots :
       (/\ req[r].pc = "idle" /\ req'[r].kind = "athletes" /\ req'[r].status = 200)
       => LET found == req'[r].found
          IN /\ {found[i].name : i \in DOMAIN found} = {d.athleteName : d \in sessions}
             /\ \A i, j \in DOMAIN found : i # j => found[i].name # found[j].name
             /\ \A i \in DOMAIN found :
                  /\ found[i].workoutCount =
                       Cardinality({d \in sessions : d.athleteName = found[i].name})
                  /\ found[i].workoutCount >= 1
                  /\ \E d \in sessions : /\ d.athleteName = found[i].name
                                          /\ d.timestamp = found[i].lastWorkout
                  /\ \A d \in sessions :
                       d.athleteName = found[i].name => d.timestamp <= found[i].lastWorkout
             /\ \A i, j \in DOMAIN found :
                  i < j => found[i].lastWorkout >= found[j].lastWorkout]_vars

\* a listing that counted two sessions of one athlete
C20_Witness ==
  \E r \in Slots :
    /\ req[r].kind = "athletes" /\ req[r].pc = "done" /\ req[r].status = 200
    /\ \E i \in DOMAIN req[r].found :
         /\ req[r].found[i].workoutCount = MaxSessions
         /\ Cardinality({d \in sessions : d.athleteName = req[r].found[i].name}) = MaxSessions

\* C21: listByAthlete(name) finds exactly the sessions whose athleteName is
\* name, newest timestamp first; the screenshots and repDetails of a session
\* have one entry per rep image of the session, in ascending repNumber order,
\* and repDetails[k].rep and repDetails[k].correct are the repNumber and the
\* correct flag of the k-th rep image, whatever its details object contains.
C21_WorkoutsWithRepDetails ==
  [][\A r \in Slots :
       /\ (/\ req[r].pc = "idle" /\ req'[r].kind = "workouts" /\ req'[r].error = NoError)
          => LET listed == req'[r].workouts
             IN /\ Range(listed) = {d \in sessions : d.athleteName = req'[r].name}
                /\ Len(listed) = Cardinality(Range(listed))
                /\ \A i, j \in DOMAIN listed : i < j => listed[i].timestamp >= listed[j].timestamp
       /\ \A i \in 1..MaxSessions :
            (/\ req[r].kind = "workouts" /\ req[r].pc = "workoutReps"
             /\ i \in req[r].pending /\ i \notin req'[r].pending)
            => LET w == req'[r].workoutsWithReps[i]
                   own == {k \in DOMAIN reps :
                             reps[k].sessionId = ObjectIdToString(req[r].workouts[i]._id)}
               IN /\ w._id = req[r].workouts[i]._id
                  /\ Len(w.screenshots) = Cardinality(own)
                  /\ Len(w.repDetails) = Cardinality(own)
                  /\ \E p \in [1..Cardinality(own) -> own] :
                       /\ \A a, b \in DOMAIN p : a # b => p[a] # p[b]
                       /\ \A a, b \in DOMAIN p :
                            a < b => reps[p[a]].repNumber <= reps[p[b]].repNumber
                       /\ \A k \in DOMAIN p :
                            /\ w.screenshots[k] = reps[p[k]].imageUrl
                            /\ w.repDetails[k].rep = reps[p[k]].repNumber
                            /\ w.repDetails[k].correct = reps[p[k]].correct]_vars

\* C22: within one ingest the session document is inserted only once the PDF
\* and video uploads of the request have settled; a rep-image upload is
\* pending or settled only for a request whose session insert returned its
\* id; rep documents are bulk-inserted only by a request none of whose
\* rep-image uploads is still pending; and a request with rep images answers
\* 200 only in the step in which its bulk insert finished.
C22_IngestStepOrder ==
  [][\A r \in Slots :
       req'[r].kind = "ingest" =>
         /\ (req'[r].sid # req[r].sid /\ ObjectIdIsValid(req'[r].sid))
            => /\ req[r].pdfData # Null => req[r].pdfUrl # Null
               /\ req[r].videoData # Null => req[r].videoUrl # Null
               /\ \E d \in sessions' \ sessions : ObjectIdToString(d._id) = req'[r].sid
               /\ req[r].pending = {} /\ req[r].repsWithUrls = <<>>
         /\ (req'[r].pending # req[r].pending \/ Len(req'[r].repsWithUrls) # Len(req[r].repsWithUrls))
            => ObjectIdIsValid(req[r].sid)
         /\ (Len(reps') > Len(reps) /\ req'[r] # req[r])
            => /\ req[r].pending = {}
               /\ Len(req[r].repsWithUrls) = Len(req[r].repImages)
               /\ reps' = reps \o req[r].repsWithUrls
         /\ (/\ req[r].pc # "done" /\ req'[r].pc = "done" /\ req'[r].status = 200
             /\ Len(req[r].repImages) > 0)
            => /\ req[r].pending = {}
               /\ Len(reps') = Len(reps) + Len(req[r].repImages)]_vars

\* an ingest with PDF, video and MaxReps rep images went through every step
C22_Witness ==
  \E r \in Slots :
    /\ IngestDone(r) /\ req[r].status = 200
    /\ req[r].pdfData # Null /\ req[r].videoData # Null
    /\ Len(req[r].repImages) = MaxReps
    /\ Len(FindReps(reps, req[r].sid)) = MaxReps
    /\ SessionExists(req[r].sid)

\* C23: a run of the utility that no listing failed scans the three folders
\* and attempts the update of every object under them, going on after a
\* failed update; per folder the updated count and the failures add up to the
\* objects found; and no run takes public access from an object that had it,
\* so a second run leaves what the first made public as it was.
C23_FixCoversEveryObject ==
  /\ [](/\ (fix.pc = "done" /\ ~fix.listFailed) =>
            /\ fix.scanned = DOMAIN Folders
            /\ fix.attempted = DOMAIN cloud
            /\ \A f \in DOMAIN Folders :
                 /\ fix.total[f] = Cardinality({o \in DOMAIN cloud : o[1] = f})
                 /\ fix.updated[f] <= fix.total[f]
        /\ fix.pc = "updating" =>
             fix.attempted = {o \in DOMAIN cloud :
                                \/ o[1] < fix.folder
                                \/ o[1] = fix.folder /\ o[2] < fix.resources[fix.next][2]})
  /\ [][\A o \in DOMAIN cloud : cloud[o] = "public" => cloud'[o] = "public"]_vars

\* C24 as stated: every request handler's getDB() call happens after the
\* document store was initialized, so no handler runs without the handle.
C24_GetDBAfterInit ==
  \A r \in Slots : req[r].pc # "idle" => db /\ connectDB = "resolved"

\* C24 as amended: connectDB() is invoked once, at process start; the listener
\* is started once and only when that call has settled, resolved or rejected;
\* the handle is never taken away; a handler therefore calls getDB() after
\* connectDB() settled, and getDB() throws exactly when client.connect() had
\* failed.
C24_ConnectOnceThenListen ==
  /\ [](server = "listening" => connectDB \in {"resolved", "rejected"})
  /\ [](\A r \in Slots :
          req[r].pc # "idle" =>
            /\ server = "listening"
            /\ (req[r].error = NotConnected) <=> ~db
            /\ ~db => (connectDB = "rejected"))
  /\ [][/\ (connectDB' = "pending" /\ connectDB # "pending")
           => (connectDB = "idle" /\ server = "init")
        /\ (connectDB \in {"resolved", "rejected"}) => (connectDB' = connectDB)
        /\ (server' = "listening" /\ server # "listening")
           => (connectDB = "pending" /\ connectDB' \in {"resolved", "rejected"})
        /\ (server = "listening") => (server' = "listening")
        /\ db => db']_vars

\* the server listens although connectDB() rejected, and a handler's getDB()
\* threw
C24_Witness ==
  /\ server = "listening" /\ connectDB = "rejected" /\ ~db
  /\ \E r \in Slots : req[r].pc = "done" /\ req[r].status = 500 /\ req[r].error = NotConnected

C26_RepsReferToSessions ==
  (\A r \in Slots : req[r].pc \in {"idle", "done"})
    => \A i \in DOMAIN reps : SessionExists(reps[i].sessionId)

\* C27: the status of a Connection only ever changes from pending: an accepted
\* one never becomes rejected, a rejected one never accepted, and none goes
\* back to pending.
C27_StatusMonotone ==
  [][\A i \in DOMAIN connections :
       /\ i \in DOMAIN connections'
       /\ connections'[i]._id = connections[i]._id
       /\ connections'[i].status # connections[i].status
            => (connections[i].status = "pending" /\ connections'[i].status # "pending")]_vars

\* C28: once a video submission has been answered, on whatever path, the
\* video file it uploaded is no longer in the uploads directory and its
\* temp_script.py is no longer in the output directory.
C28_NoFilesLeftBehind ==
  \A r \in Slots :
    (req[r].kind = "process" /\ req[r].pc = "done")
      => (~req[r].uploadOnDisk /\ ~req[r].tempScriptOnDisk)

\* C29: a step of an ingest (its cleanup deleteMany included) or of a delete
\* leaves every WorkoutSession document and every RepImage document of any
\* session other than the request's own as it was: none is inserted, changed
\* or removed.
C29_ConfinedToOwnSession ==
  [][\A r \in Slots :
       (req'[r] # req[r] /\ req'[r].kind \in {"ingest", "delete"})
       => /\ \A s \in sessions \cup sessions' :
               ObjectIdToString(s._id) # req'[r].sid => (s \in sessions /\ s \in sessions')
          /\ SelectSeq(reps', LAMBDA d : d.sessionId # req'[r].sid)
               = SelectSeq(reps, LAMBDA d : d.sessionId # req'[r].sid)]_vars

\* two ingests stored a rep image each: the cleanup and the bulk insert of the
\* later one left the rep image of the other session in place
C29_Witness ==
  \E r, q \in Slots :
    /\ r # q
    /\ IngestDone(r) /\ req[r].status = 200 /\ Len(req[r].repImages) = 1
    /\ IngestDone(q) /\ req[q].status = 200 /\ Len(req[q].repImages) = 1
    /\ req[r].sid # req[q].sid
    /\ Len(FindReps(reps, req[r].sid)) = 1 /\ Len(FindReps(reps, req[q].sid)) = 1
    /\ SessionExists(req[r].sid) /\ SessionExists(req[q].sid)

\* what GET /api/connections/:userId and GET /api/users/discover answer on the
\* store as it is: the userIds listed
ConnectionsOf(a) ==
  {u.userId : u \in Range(ConnectedUsers(users, ConnectedUserIds(connections, a)))}
DiscoverOf(a) ==
  {u.userId : u \in Range(UniqueByUserId(
                 FindDiscoverable(users, a, ConnectedUserIds(connections, a))))}

\* C30: for any two distinct existing users a and b, b is in the connections
\* list of a exactly when a is in the connections list of b, and b is in
\* exactly one of connections(a) and discover(a).
C30_SymmetricPartition ==
  \A i, j \in DOMAIN users :
    LET a == users[i].userId
        b == users[j].userId
    IN a # b =>
         /\ (b \in ConnectionsOf(a)) <=> (a \in ConnectionsOf(b))
         /\ (b \in ConnectionsOf(a)) <=> (b \notin DiscoverOf(a))
         /\ (b \in ConnectionsOf(a)) <=>
              \E k \in DOMAIN connections :
                /\ connections[k].status = "accepted"
                /\ PairOf(connections[k]) = {a, b}

\* a listed b among their connections and b's discover did not list a
C30_Witness ==
  \E r, q \in Slots :
    /\ req[r].kind = "connectionsOf" /\ req[r].pc = "done" /\ req[r].status = 200
    /\ req[q].kind = "discover" /\ req[q].pc = "done" /\ req[q].status = 200
    /\ req[r].userId # req[q].userId
    /\ \E k \in DOMAIN req[r].found : req[r].found[k].userId = req[q].userId
    /\ \A k \in DOMAIN req[q].found : req[q].found[k].userId # req[r].userId
    /\ req[q].userId \in ConnectionsOf(req[r].userId)
    /\ req[r].userId \in ConnectionsOf(req[q].userId)
    /\ Len(users) = MaxUsers

====
